---------------------------- MODULE Spec2Model ----------------------------
(***************************************************************************)
(* Model of the ECU reasoning loop (src/src/agent/workflow.py) and of the  *)
(* retrieval tools (src/src/tools/retrieval_tools.py).                     *)
(*                                                                         *)
(* Numbers with a fractional part are kept as integers in tenths: a        *)
(* meta-reasoning confidence of 8.0 (scale 0-10) is 80, a hypothesis       *)
(* confidence of 0.7 (scale 0-1) is 7, an edge strength of 0.5 is 5.       *)
(* The confidences the Oracle returns are numbers.                         *)
(***************************************************************************)
EXTENDS Integers, Sequences, FiniteSets, TLC

VARIABLES
    config,            \* the global config object (src/src/config.py)
    oracle,            \* the range of answers the LLM and the tools give in this run
    pc,                \* node of the workflow that runs next, or "route", "end", "failed"
    sub_questions,     \* state['sub_questions']
    observations,      \* state['observations']
    hypotheses,        \* state['hypotheses']
    evidence_trail,    \* state['evidence_trail']
    iterations,        \* state['iterations']
    confidence_score,  \* state['confidence_score'], tenths
    decision,          \* state['_decision']
    answer,            \* state['answer']
    trace,             \* history: the nodes executed so far, in order
    unpruned,          \* history: the list the last node had built before it pruned it
    obs_total,         \* history: observations appended so far in the session
    trail_total,       \* history: trail lines appended so far in the session
    store,             \* ids of the observations in the observation store
    table,             \* the stored observations' columns, by id
    edges,             \* co-occurrence edges of the store
    targs,             \* arguments of the retrieval tool call
    tpc,               \* position inside the retrieval tool
    failures,          \* history: store lookups that failed during the tool call
    visited,           \* traverse_graph: visited
    current_level,     \* traverse_graph: current_level
    pending,           \* traverse_graph: ids of current_level the inner loop has not taken yet
    next_level,        \* traverse_graph: next_level
    hop,               \* traverse_graph: the loop variable hop (-1 while unbound)
    all_observations,  \* traverse_graph: all_observations
    result,            \* the value returned: by the retrieval tool, or by query()
    runs,              \* ingestion: the state of each _process_batch call in progress
    next_id,           \* ingestion: the next value of the observations' id sequence
    chunking,          \* ingestion: a _chunk_document call, its arguments and locals
    clock,             \* datetime.now(), in whole seconds
    sessions,          \* the query() calls made on one agent, each with its session id
    checkpoints        \* the agent's MemorySaver: the saved state of each thread id

sessionVars == <<pc, sub_questions, observations, hypotheses, evidence_trail, iterations,
                 confidence_score, decision, answer, trace, unpruned, obs_total, trail_total>>
traverseVars == <<store, table, edges, targs, tpc, failures, visited, current_level, pending, next_level,
                  hop, all_observations, result>>
ingestVars == <<runs, next_id, chunking>>
queryVars == <<clock, sessions, checkpoints>>
vars == <<config, oracle, sessionVars, traverseVars, ingestVars, queryVars>>

---------------------------------------------------------------------------
(* Bounds of the model *)

MaxIterations == 6      \* MAX_ITERATIONS ranges over 0..MaxIterations
MaxObsCap == 2          \* MAX_OBSERVATIONS_IN_MEMORY ranges over 0..MaxObsCap
MaxHypCap == 2          \* MAX_HYPOTHESES ranges over 0..MaxHypCap
MaxTrailTail == 2       \* MAX_EVIDENCE_TRAIL_ITEMS ranges over 11..(10 + MaxTrailTail)
MaxResults == 2         \* observations one tool call returns
MaxPatterns == 3        \* patterns one pattern detection returns
MemoryRounds == 3       \* MAX_ITERATIONS of the runs that exercise working memory
MaxNodes == 3           \* observation ids of the store range over 1..MaxNodes
MaxHops == 3            \* max_hops ranges over 0..MaxHops
MaxK == 2               \* the k of semantic_search ranges over None, 0..MaxK
MaxFiles == 2           \* a batch of ingestion has 1..MaxFiles files
MaxChunks == 2          \* a file yields 0..MaxChunks observations
MaxFlushThreshold == 2  \* INGESTION_FLUSH_THRESHOLD ranges over 1..MaxFlushThreshold
MaxWords == 3           \* a document has up to MaxWords words
MaxWordLength == 2      \* a word has 1..MaxWordLength characters
MaxChunkSize == 2       \* chunk_size ranges over 1..MaxChunkSize, chunk_overlap over 0..MaxChunkSize
MaxLoopPasses == 4      \* passes of the chunking loop that are followed
MaxCalls == 3           \* query() is called MaxCalls times on one agent
MaxClock == 2           \* the clock shows the seconds 0..MaxClock

(* Program constants *)

DEFAULT_MAX_OBSERVATIONS == 100
DEFAULT_MAX_TRAIL == 200
DEFAULT_MAX_HYPOTHESES == 50
DEFAULT_SEMANTIC_SEARCH_K == 20
SYNTHESIZE_CONFIDENCE == 80     \* confidence >= 8.0
LOW_CONFIDENCE == 50            \* confidence < 5.0
LOW_CONFIDENCE_ITERATIONS == 5  \* iterations >= 5
TRAIL_HEAD == 10                \* evidence_trail[:10]

---------------------------------------------------------------------------
(* Python list operations *)

Min(a, b) == IF a < b THEN a ELSE b
Max(a, b) == IF a > b THEN a ELSE b

\* s[i:] ; a negative i counts from the end, and -0 is 0
SliceFrom(s, i) ==
    LET start == IF i < 0 THEN Max(Len(s) + i, 0) ELSE Min(i, Len(s))
    IN  SubSeq(s, start + 1, Len(s))

\* s[:j]
SliceTo(s, j) ==
    LET stop == IF j < 0 THEN Max(Len(s) + j, 0) ELSE Min(j, Len(s))
    IN  SubSeq(s, 1, stop)

RECURSIVE Concat(_)
Concat(ss) == IF ss = <<>> THEN <<>> ELSE Head(ss) \o Concat(Tail(ss))

\* an insertion that puts an entry before the entries of equal confidence
RECURSIVE InsertBeforeEqual(_, _)
InsertBeforeEqual(h, sorted) ==
    IF sorted = <<>> THEN <<h>>
    ELSE IF Head(sorted).confidence > h.confidence
         THEN <<Head(sorted)>> \o InsertBeforeEqual(h, Tail(sorted))
         ELSE <<h>> \o sorted

\* sorted(hs, key=confidence, reverse=True): stable, equal keys keep their order
RECURSIVE InsertByConfidence(_, _)
InsertByConfidence(h, sorted) ==
    IF sorted = <<>> THEN <<h>>
    ELSE IF Head(sorted).confidence >= h.confidence
         THEN <<Head(sorted)>> \o InsertByConfidence(h, Tail(sorted))
         ELSE <<h>> \o sorted

RECURSIVE SortedByConfidence(_)
SortedByConfidence(hs) ==
    IF hs = <<>> THEN <<>>
    ELSE InsertByConfidence(hs[Len(hs)], SortedByConfidence(SubSeq(hs, 1, Len(hs) - 1)))

---------------------------------------------------------------------------
(* The evidence trail: a line is its text (kind and arguments); n is its   *)
(* position in the sequence of all lines the session appended.             *)

Line(n, kind, arg) == [n |-> n, kind |-> kind, arg |-> arg]

\* trail.append(...) for each text of texts, the first one getting number total + 1
AppendLines(trail, total, texts) ==
    trail \o [i \in 1..Len(texts) |-> Line(total + i, texts[i][1], texts[i][2])]

---------------------------------------------------------------------------
(* The workflow graph *)

Nodes == {"decompose", "gather", "detect_patterns", "test_hypotheses", "meta_reason",
          "synthesize"}

Decisions == {"CONTINUE", "STOP", "SYNTHESIZE", "MAYBE"}

DispatchTable == {"semantic_search", "find_cooccurrences", "temporal_query",
                  "traverse_graph", "find_contradictions"}

\* should_continue without the hard limit on the iterations
should_continue_unlimited(d, iters, conf, max_iterations) ==
    IF d = "SYNTHESIZE" \/ conf >= SYNTHESIZE_CONFIDENCE THEN "synthesize"
    ELSE IF d = "STOP" \/ (conf < LOW_CONFIDENCE /\ iters >= LOW_CONFIDENCE_ITERATIONS)
         THEN "stop"
    ELSE "continue"

\* should_continue with the hard limit one iteration late
should_continue_late(d, iters, conf, max_iterations) ==
    IF iters > max_iterations THEN "stop"
    ELSE should_continue_unlimited(d, iters, conf, max_iterations)

\* should_continue routing on the decision alone
should_continue_by_decision(d, iters, conf, max_iterations) ==
    IF iters >= max_iterations THEN "stop"
    ELSE IF d = "SYNTHESIZE" THEN "synthesize"
    ELSE IF d = "STOP" \/ (conf < LOW_CONFIDENCE /\ iters >= LOW_CONFIDENCE_ITERATIONS)
         THEN "stop"
    ELSE "continue"

\* should_continue with strict comparisons at the confidence thresholds
should_continue_strict(d, iters, conf, max_iterations) ==
    IF iters >= max_iterations THEN "stop"
    ELSE IF d = "SYNTHESIZE" \/ conf > SYNTHESIZE_CONFIDENCE THEN "synthesize"
    ELSE IF d = "STOP" \/ (conf <= LOW_CONFIDENCE /\ iters >= LOW_CONFIDENCE_ITERATIONS)
         THEN "stop"
    ELSE "continue"

\* should_continue
should_continue(d, iters, conf, max_iterations) ==
    IF iters >= max_iterations THEN "stop"
    ELSE IF d = "SYNTHESIZE" \/ conf >= SYNTHESIZE_CONFIDENCE THEN "synthesize"
    ELSE IF d = "STOP" \/ (conf < LOW_CONFIDENCE /\ iters >= LOW_CONFIDENCE_ITERATIONS)
         THEN "stop"
    ELSE "continue"

\* the conditional edge with "continue" wired past gather
ConditionalEdgeSkippingGather(route) ==
    CASE route = "continue" -> "detect_patterns"
      [] route = "synthesize" -> "synthesize"
      [] route = "stop" -> "end"

\* add_conditional_edges("meta_reason", should_continue, {...})
ConditionalEdge(route) ==
    CASE route = "continue" -> "gather"
      [] route = "synthesize" -> "synthesize"
      [] route = "stop" -> "end"


---------------------------------------------------------------------------
(* Nodes of the workflow.  Each node is one action: it reads the Oracle's  *)
(* answer (any element of the range oracle gives for that call), changes   *)
(* the state as the node's code does, and hands over to the next node.     *)

\* a node raises: app.invoke propagates the exception to query()
Raise(node) ==
    /\ pc' = "failed"
    /\ trace' = Append(trace, node)
    /\ UNCHANGED <<sub_questions, observations, hypotheses, evidence_trail, iterations,
                   confidence_score, decision, answer, unpruned, obs_total, trail_total>>

\* a sub-question that is created as answered
SubQuestionAnswered(i, priority) ==
    [id |-> i, priority |-> priority, confidence |-> 10, status |-> "answered"]

SubQuestion(i, priority) ==
    [id |-> i, priority |-> priority, confidence |-> 0, status |-> "pending"]

\* decompose_query
decompose_query ==
    /\ pc = "decompose"
    /\ \E r \in oracle.decompositions :
         IF r.malformed
         THEN Raise("decompose")
         ELSE /\ sub_questions' = [i \in 1..Len(r.sub_questions) |->
                                      SubQuestion(i - 1, r.sub_questions[i])]
              /\ evidence_trail' = AppendLines(evidence_trail, trail_total,
                                       << <<"decomposed", <<Len(r.sub_questions)>> >> >>)
              /\ trail_total' = trail_total + 1
              /\ unpruned' = <<>>
              /\ trace' = Append(trace, "decompose")
              /\ pc' = "gather"
              /\ UNCHANGED <<observations, hypotheses, iterations, confidence_score,
                             decision, answer, obs_total>>
    /\ UNCHANGED <<config, oracle, ingestVars, queryVars, traverseVars>>

\* a dispatch that runs every tool the plan names
ToolResultCountOfAnyTool(call) == call.returns

\* the number of observations a planned tool call yields
ToolResultCount(call) == IF call.tool \in DispatchTable THEN call.returns ELSE 0

\* the tool calls of a plan that reach line 172 (those that raise are only logged)
Completed(plan) == SelectSeq(plan, LAMBDA call : ~call.raises)

\* new_observations after the loop over the plan; observation k of the session
\* is the record [seq |-> k, tool |-> the tool that returned it]
NewObservations(plan, total) ==
    LET done == Completed(plan)
        flat == Concat([i \in 1..Len(done) |->
                          [j \in 1..ToolResultCount(done[i]) |-> done[i].tool]])
    IN  [k \in 1..Len(flat) |-> [seq |-> total + k, tool |-> flat[k]]]

ToolLines(plan) ==
    LET done == Completed(plan)
    IN  [i \in 1..Len(done) |-> <<"tool", <<done[i].tool, ToolResultCount(done[i])>> >>]

\* observations[-MAX_OBS:]
PruneObservations(obs, max_obs) == SliceFrom(obs, 0 - max_obs)

\* gather_observations
gather_observations ==
    /\ pc = "gather"
    /\ \E r \in oracle.plans :
         IF r.malformed
         THEN Raise("gather")
         ELSE LET new == NewObservations(r.tool_calls, obs_total)
                  all == observations \o new
                  max_obs == config.MAX_OBSERVATIONS_IN_MEMORY
                  over == Len(all) > max_obs
                  lines == ToolLines(r.tool_calls) \o
                           (IF over THEN << <<"pruned_observations",
                                              <<Len(all) - max_obs, max_obs>> >> >>
                                    ELSE <<>>)
              IN  /\ observations' = IF over THEN PruneObservations(all, max_obs) ELSE all
                  /\ unpruned' = all
                  /\ obs_total' = obs_total + Len(new)
                  /\ evidence_trail' = AppendLines(evidence_trail, trail_total, lines)
                  /\ trail_total' = trail_total + Len(lines)
                  /\ trace' = Append(trace, "gather")
                  /\ pc' = "detect_patterns"
                  /\ UNCHANGED <<sub_questions, hypotheses, iterations, confidence_score,
                                 decision, answer>>
    /\ UNCHANGED <<config, oracle, ingestVars, queryVars, traverseVars>>

Hypothesis(id, confidence, iteration) ==
    [id |-> id, confidence |-> confidence, tested_at_iteration |-> iteration,
     num_tests |-> 1]

\* sorted(hypotheses, key=confidence, reverse=True)[:MAX_HYPOTHESES]
PruneHypotheses(hs, max_hypotheses) == SliceTo(SortedByConfidence(hs), max_hypotheses)

\* state.get('observations', [])[-20:]
RECENT_OBSERVATIONS == 20

\* what a tool's result list consists of: find_contradictions returns tuples
\* (obs1, obs2, dissimilarity), the other tools return dictionaries
ElementType(tool) == IF tool = "find_contradictions" THEN "tuple" ELSE "dict"

\* o.get(...) on every element of all_obs: a tuple has no get
ReadsRecentObservations(obs) ==
    \A o \in {SliceFrom(obs, 0 - RECENT_OBSERVATIONS)[i] :
                i \in DOMAIN SliceFrom(obs, 0 - RECENT_OBSERVATIONS)} :
        ElementType(o.tool) = "dict"

\* detect_patterns
detect_patterns ==
    /\ pc = "detect_patterns"
    /\ \E r \in oracle.pattern_lists :
         IF r.malformed \/ ~ReadsRecentObservations(observations)
         THEN Raise("detect_patterns")
         ELSE LET first == Len(hypotheses)
                  all == hypotheses \o
                         [i \in 1..Len(r.patterns) |->
                             Hypothesis(first + i - 1, r.patterns[i], iterations)]
                  max_hypotheses == config.MAX_HYPOTHESES
                  over == Len(all) > max_hypotheses
                  lines == [i \in 1..Len(r.patterns) |->
                               <<"hypothesis", <<r.patterns[i]>> >>] \o
                           (IF over THEN << <<"pruned_hypotheses", <<max_hypotheses>> >> >>
                                    ELSE <<>>)
              IN  /\ hypotheses' = IF over THEN PruneHypotheses(all, max_hypotheses)
                                           ELSE all
                  /\ unpruned' = all
                  /\ evidence_trail' = AppendLines(evidence_trail, trail_total, lines)
                  /\ trail_total' = trail_total + Len(lines)
                  /\ trace' = Append(trace, "detect_patterns")
                  /\ pc' = "test_hypotheses"
                  /\ UNCHANGED <<sub_questions, observations, iterations, confidence_score,
                                 decision, answer, obs_total>>
    /\ UNCHANGED <<config, oracle, ingestVars, queryVars, traverseVars>>

\* hypotheses[hyp_id] of a list of length n: the position (from 1) a Python index
\* names, 0 when it raises IndexError
ListIndex(hyp_id, n) ==
    IF hyp_id >= 0 THEN (IF hyp_id < n THEN hyp_id + 1 ELSE 0)
    ELSE (IF n + hyp_id >= 0 THEN n + hyp_id + 1 ELSE 0)

\* the loop over the evaluations: [hypotheses, lines, raised]
RECURSIVE ApplyEvaluations(_, _, _)
ApplyEvaluations(evaluations, acc, iteration) ==
    IF evaluations = <<>> \/ acc.raised THEN acc
    ELSE LET e == Head(evaluations)
             hs == acc.hypotheses
             at == ListIndex(e.hypothesis_id, Len(hs))
         IN  IF ~(e.hypothesis_id < Len(hs))
             THEN ApplyEvaluations(Tail(evaluations), acc, iteration)
             ELSE IF at = 0
             THEN [acc EXCEPT !.raised = TRUE]
             ELSE ApplyEvaluations(Tail(evaluations),
                    [acc EXCEPT
                       !.hypotheses = [hs EXCEPT ![at] =
                           [@ EXCEPT !.confidence = e.new_confidence,
                                     !.num_tests = @ + 1,
                                     !.tested_at_iteration = iteration]],
                       !.lines = Append(@, <<"updated",
                                            <<e.hypothesis_id, e.new_confidence>> >>)],
                    iteration)

\* test_hypotheses
test_hypotheses ==
    /\ pc = "test_hypotheses"
    /\ IF hypotheses = <<>>
       THEN /\ trace' = Append(trace, "test_hypotheses")
            /\ pc' = "meta_reason"
            /\ unpruned' = <<>>
            /\ UNCHANGED <<sub_questions, observations, hypotheses, evidence_trail,
                           iterations, confidence_score, decision, answer, obs_total,
                           trail_total>>
       ELSE \E r \in oracle.evaluation_lists :
              LET out == ApplyEvaluations(r.evaluations,
                            [hypotheses |-> hypotheses, lines |-> <<>>, raised |-> FALSE],
                            iterations)
              IN  IF r.malformed \/ out.raised
                  THEN Raise("test_hypotheses")
                  ELSE /\ hypotheses' = out.hypotheses
                       /\ evidence_trail' = AppendLines(evidence_trail, trail_total,
                                                        out.lines)
                       /\ trail_total' = trail_total + Len(out.lines)
                       /\ unpruned' = <<>>
                       /\ trace' = Append(trace, "test_hypotheses")
                       /\ pc' = "meta_reason"
                       /\ UNCHANGED <<sub_questions, observations, iterations,
                                      confidence_score, decision, answer, obs_total>>
    /\ UNCHANGED <<config, oracle, ingestVars, queryVars, traverseVars>>

\* a pruning that keeps the most recent max_trail lines only
PruneTrailToRecent(trail, max_trail) == SliceFrom(trail, 0 - max_trail)

\* evidence_trail[:10] + evidence_trail[-(MAX_TRAIL - 10):]
PruneTrail(trail, max_trail) ==
    SliceTo(trail, TRAIL_HEAD) \o SliceFrom(trail, 0 - (max_trail - TRAIL_HEAD))

\* meta_reasoning
meta_reasoning ==
    /\ pc = "meta_reason"
    /\ \E r \in oracle.metas :
         LET all == AppendLines(evidence_trail, trail_total,
                        << <<"meta", <<r.confidence_score, r.decision>> >> >>)
             max_trail == config.MAX_EVIDENCE_TRAIL_ITEMS
         IN  /\ iterations' = iterations + 1
             /\ confidence_score' = r.confidence_score
             /\ decision' = r.decision
             /\ evidence_trail' = IF Len(all) > max_trail THEN PruneTrail(all, max_trail)
                                                         ELSE all
             /\ unpruned' = all
             /\ trail_total' = trail_total + 1
    /\ trace' = Append(trace, "meta_reason")
    /\ pc' = "route"
    /\ UNCHANGED <<sub_questions, observations, hypotheses, answer, obs_total>>
    /\ UNCHANGED <<config, oracle, ingestVars, queryVars, traverseVars>>

\* the conditional edge after meta_reason
Route ==
    /\ pc = "route"
    /\ pc' = ConditionalEdge(should_continue(decision, iterations, confidence_score,
                                             config.MAX_ITERATIONS))
    /\ UNCHANGED <<sub_questions, observations, hypotheses, evidence_trail, iterations,
                   confidence_score, decision, answer, trace, unpruned, obs_total,
                   trail_total>>
    /\ UNCHANGED <<config, oracle, ingestVars, queryVars, traverseVars>>

\* synthesize_answer
synthesize_answer ==
    /\ pc = "synthesize"
    /\ \E r \in oracle.syntheses :
         /\ answer' = IF r.has_answer THEN r.answer ELSE "Unable to determine answer"
         /\ confidence_score' = IF r.has_confidence THEN r.confidence
                                                    ELSE confidence_score
    /\ evidence_trail' = AppendLines(evidence_trail, trail_total,
                                     << <<"synthesized", <<>> >> >>)
    /\ trail_total' = trail_total + 1
    /\ unpruned' = <<>>
    /\ trace' = Append(trace, "synthesize")
    /\ pc' = "end"
    /\ UNCHANGED <<sub_questions, observations, hypotheses, iterations, decision,
                   obs_total>>
    /\ UNCHANGED <<config, oracle, ingestVars, queryVars, traverseVars>>

SessionNext ==
    \/ decompose_query
    \/ gather_observations
    \/ detect_patterns
    \/ test_hypotheses
    \/ meta_reasoning
    \/ Route
    \/ synthesize_answer


---------------------------------------------------------------------------
(* traverse_graph, statement by statement.  An edge is [a, b, strength];   *)
(* an element of all_observations is [id, hop_distance].                   *)

Ids == 1..MaxNodes
Strengths == {3, 8}
MinStrengths == {0, 5}

\* the filter of the neighbour query: the edge touches obs_id and is strong enough
Touches(e, obs_id, min_strength) ==
    /\ e.a = obs_id \/ e.b = obs_id
    /\ e.strength >= min_strength

\* other_id
OtherEnd(e, obs_id) == IF e.a = obs_id THEN e.b ELSE e.a

\* a traversal that never skips an id
NeverVisited(obs_id, seen) == FALSE

\* if obs_id in visited: continue
AlreadyVisited(obs_id, seen) == obs_id \in seen

\* 'hop_distance': hop
HopDistance(h) == h

\* range(max_hops) yields another value after h (h = -1 before the first)
RangeHasNext(h, max_hops) == h + 1 < max_hops

\* for hop in range(max_hops): next_level = set()
ForHop ==
    /\ tpc = "for_hop"
    /\ IF RangeHasNext(hop, targs.max_hops)
       THEN /\ hop' = hop + 1
            /\ next_level' = {}
            /\ pending' = current_level
            /\ tpc' = "for_obs"
       ELSE /\ tpc' = "return"
            /\ UNCHANGED <<hop, next_level, pending>>
    /\ UNCHANGED <<store, table, edges, targs, failures, visited, current_level,
                   all_observations, result>>
    /\ UNCHANGED <<config, oracle, ingestVars, queryVars, sessionVars>>

\* one pass of the body of: for obs_id in current_level (a set: any order)
VisitObservation ==
    /\ tpc = "for_obs"
    /\ \E obs_id \in pending :
         /\ pending' = pending \ {obs_id}
         /\ IF AlreadyVisited(obs_id, visited)
            THEN UNCHANGED <<visited, all_observations, next_level>>
            ELSE /\ visited' = visited \cup {obs_id}
                 /\ all_observations' =
                       IF obs_id \in store
                       THEN Append(all_observations,
                                   [id |-> obs_id, hop_distance |-> HopDistance(hop)])
                       ELSE all_observations
                 /\ next_level' = next_level \cup
                       {OtherEnd(e, obs_id) :
                          e \in {f \in edges : /\ Touches(f, obs_id, targs.min_strength)
                                               /\ OtherEnd(f, obs_id) \notin visited'}}
    /\ UNCHANGED <<store, table, edges, targs, tpc, failures, current_level, hop, result>>
    /\ UNCHANGED <<config, oracle, ingestVars, queryVars, sessionVars>>

\* current_level = next_level; if not current_level: break
EndLevel ==
    /\ tpc = "for_obs"
    /\ pending = {}
    /\ current_level' = next_level
    /\ tpc' = IF next_level = {} THEN "return" ELSE "for_hop"
    /\ UNCHANGED <<store, table, edges, targs, failures, visited, pending, next_level, hop,
                   all_observations, result>>
    /\ UNCHANGED <<config, oracle, ingestVars, queryVars, sessionVars>>

\* logger.info(f"... in {hop+1} hops"); return all_observations
\* (hop is unbound when the loop body never ran: NameError, caught by the except)
Return ==
    /\ tpc = "return"
    /\ IF hop = -1
       THEN /\ result' = <<>>
            /\ tpc' = "raised"
       ELSE /\ result' = all_observations
            /\ tpc' = "returned"
    /\ UNCHANGED <<store, table, edges, targs, failures, visited, current_level, pending,
                   next_level, hop, all_observations>>
    /\ UNCHANGED <<config, oracle, ingestVars, queryVars, sessionVars>>

\* except Exception: return []  (a query fails, or dict(obs.metadata) rejects the row)
TraverseRaise ==
    /\ tpc = "for_obs"
    /\ pending # {}
    /\ result' = <<>>
    /\ tpc' = "raised"
    /\ failures' = failures + 1
    /\ UNCHANGED <<store, table, edges, targs, visited, current_level, pending, next_level,
                   hop, all_observations>>
    /\ UNCHANGED <<config, oracle, ingestVars, queryVars, sessionVars>>

TraverseNext ==
    \/ ForHop
    \/ VisitObservation
    \/ EndLevel
    \/ Return
    \/ TraverseRaise

---------------------------------------------------------------------------
(* Initial states *)

ConfidenceScores == {0, 49, 50, 79, 80, 85}

\* no query() call is made beside the session the model follows
NoQueries ==
    /\ clock = 0
    /\ sessions = <<>>
    /\ checkpoints = <<>>

\* no ingestion is running
NoIngestion ==
    /\ runs = <<>>
    /\ next_id = 1
    /\ chunking = <<>>

\* no retrieval tool is running, on an empty store
NoRetrieval ==
    /\ store = {}
    /\ table = <<>>
    /\ edges = {}
    /\ targs = [start_observation_id |-> 1, max_hops |-> 0, min_strength |-> 0]
    /\ tpc = "idle"
    /\ failures = 0
    /\ visited = {}
    /\ current_level = {}
    /\ pending = {}
    /\ next_level = {}
    /\ hop = -1
    /\ all_observations = <<>>
    /\ result = <<>>

NoTraversal ==
    /\ NoIngestion
    /\ NoQueries
    /\ NoRetrieval

\* the state query() builds before app.invoke
InitialState ==
    /\ pc = "decompose"
    /\ sub_questions = <<>>
    /\ observations = <<>>
    /\ hypotheses = <<>>
    /\ evidence_trail = <<>>
    /\ iterations = 0
    /\ confidence_score = 0
    /\ decision = "CONTINUE"
    /\ answer = "None"
    /\ trace = <<>>
    /\ unpruned = <<>>
    /\ obs_total = 0
    /\ trail_total = 0

Config(max_iterations, max_obs, max_trail, max_hypotheses) ==
    [MAX_ITERATIONS |-> max_iterations,
     MAX_OBSERVATIONS_IN_MEMORY |-> max_obs,
     MAX_EVIDENCE_TRAIL_ITEMS |-> max_trail,
     MAX_HYPOTHESES |-> max_hypotheses,
     SEMANTIC_SEARCH_K |-> DEFAULT_SEMANTIC_SEARCH_K]

\* _call_llm returned {} (the call failed or the answer was no JSON)
EmptyDecomposition == [sub_questions |-> <<>>, malformed |-> FALSE]
EmptyPlan == [tool_calls |-> <<>>, malformed |-> FALSE]
EmptyPatterns == [patterns |-> <<>>, malformed |-> FALSE]
EmptyEvaluations == [evaluations |-> <<>>, malformed |-> FALSE]
EmptySynthesis == [has_answer |-> FALSE, answer |-> "None", has_confidence |-> FALSE,
                   confidence |-> 0]

ToolCall(tool, returns, raises) == [tool |-> tool, returns |-> returns, raises |-> raises]

LoopConfidenceScores == {0, 50, 85}

AllMetas == [confidence_score : LoopConfidenceScores, decision : Decisions]

\* the key 'answer' is absent, or holds a text, or holds null
AllSyntheses ==
    {r \in [has_answer : BOOLEAN, answer : {"answer", "None"}, has_confidence : BOOLEAN,
            confidence : {0, 90}] : ~r.has_answer => r.answer = "None"}

\* an Oracle whose judgments vary and a store that returns little
ControlOracle ==
    [decompositions |-> {EmptyDecomposition,
                         [sub_questions |-> <<"ESSENTIAL">>, malformed |-> FALSE],
                         [sub_questions |-> <<"ESSENTIAL", "HELPFUL">>, malformed |-> FALSE],
                         [sub_questions |-> <<"ESSENTIAL">>, malformed |-> TRUE]},
     plans |-> {EmptyPlan,
                [tool_calls |-> <<ToolCall("semantic_search", 1, FALSE)>>,
                 malformed |-> TRUE]},
     pattern_lists |-> {EmptyPatterns, [patterns |-> <<7>>, malformed |-> TRUE]},
     evaluation_lists |-> {EmptyEvaluations},
     metas |-> AllMetas,
     syntheses |-> AllSyntheses]

Init ==
    /\ \E m \in 0..MaxIterations :
         config = Config(m, DEFAULT_MAX_OBSERVATIONS, DEFAULT_MAX_TRAIL,
                         DEFAULT_MAX_HYPOTHESES)
    /\ oracle = ControlOracle
    /\ InitialState
    /\ NoTraversal

Next == SessionNext

Spec == Init /\ [][Next]_vars

\* every node runs to completion and the next one is started
FairSpec == Spec /\ WF_vars(Next)

---------------------------------------------------------------------------
(* Runs that exercise working memory: the Oracle keeps the loop going (or  *)
(* asks for the synthesis) and the tools and the pattern detection return  *)
(* data; MAX_ITERATIONS is MemoryRounds.                                   *)

MemoryMetas == {[confidence_score |-> 50, decision |-> "CONTINUE"],
                [confidence_score |-> 85, decision |-> "CONTINUE"]}

\* plans of one to two tool calls; cluster_observations is not in the dispatch table
GatherPlans ==
    {EmptyPlan,
     [tool_calls |-> <<ToolCall("semantic_search", 1, FALSE)>>, malformed |-> FALSE],
     [tool_calls |-> <<ToolCall("semantic_search", MaxResults, FALSE)>>,
      malformed |-> FALSE],
     [tool_calls |-> <<ToolCall("temporal_query", MaxResults, FALSE),
                       ToolCall("find_cooccurrences", 1, FALSE)>>, malformed |-> FALSE],
     [tool_calls |-> <<ToolCall("cluster_observations", 1, FALSE),
                       ToolCall("traverse_graph", 1, FALSE)>>, malformed |-> FALSE],
     [tool_calls |-> <<ToolCall("semantic_search", 1, TRUE),
                       ToolCall("find_cooccurrences", 1, FALSE)>>, malformed |-> FALSE],
     [tool_calls |-> <<ToolCall("semantic_search", 1, FALSE)>>, malformed |-> TRUE]}

ObservationOracle ==
    [decompositions |-> {EmptyDecomposition},
     plans |-> GatherPlans,
     pattern_lists |-> {EmptyPatterns},
     evaluation_lists |-> {EmptyEvaluations},
     metas |-> MemoryMetas,
     syntheses |-> {EmptySynthesis}]

ObservationInit ==
    /\ \E cap \in 0..MaxObsCap :
         config = Config(MemoryRounds, cap, DEFAULT_MAX_TRAIL, DEFAULT_MAX_HYPOTHESES)
    /\ oracle = ObservationOracle
    /\ InitialState
    /\ NoTraversal

ObservationSpec == ObservationInit /\ [][Next]_vars

\* pattern lists (each pattern is its confidence, tenths of 0..1), with ties
PatternLists ==
    {EmptyPatterns,
     [patterns |-> <<9>>, malformed |-> FALSE],
     [patterns |-> <<7, 9>>, malformed |-> FALSE],
     [patterns |-> [i \in 1..MaxPatterns |-> 7], malformed |-> FALSE],
     [patterns |-> [i \in 1..MaxPatterns |-> IF i = 2 THEN 9 ELSE 7], malformed |-> FALSE],
     [patterns |-> <<7>>, malformed |-> TRUE]}

Evaluation(hypothesis_id, new_confidence) ==
    [hypothesis_id |-> hypothesis_id, new_confidence |-> new_confidence]

EvaluationLists ==
    {EmptyEvaluations,
     [evaluations |-> <<Evaluation(0, 9)>>, malformed |-> FALSE],
     [evaluations |-> <<Evaluation(1, 3), Evaluation(MaxPatterns + MaxHypCap, 9)>>,
      malformed |-> FALSE]}

HypothesisOracle ==
    [decompositions |-> {EmptyDecomposition},
     plans |-> {EmptyPlan},
     pattern_lists |-> PatternLists,
     evaluation_lists |-> EvaluationLists,
     metas |-> MemoryMetas,
     syntheses |-> {EmptySynthesis}]

HypothesisInit ==
    /\ \E cap \in 0..MaxHypCap :
         config = Config(MemoryRounds, DEFAULT_MAX_OBSERVATIONS, DEFAULT_MAX_TRAIL, cap)
    /\ oracle = HypothesisOracle
    /\ InitialState
    /\ NoTraversal

HypothesisSpec == HypothesisInit /\ [][Next]_vars

\* what the Oracle may also return: a confidence outside 0..1 (here 1.2 and -0.1),
\* a negative hypothesis_id
UncheckedPatternLists ==
    {EmptyPatterns,
     [patterns |-> <<9>>, malformed |-> FALSE],
     [patterns |-> <<12, 7>>, malformed |-> FALSE]}

UncheckedEvaluationLists ==
    {[evaluations |-> <<Evaluation(1, 3), Evaluation(MaxPatterns + MaxHypCap, 9)>>,
      malformed |-> FALSE],
     [evaluations |-> <<Evaluation(0 - 1, 3)>>, malformed |-> FALSE],
     [evaluations |-> <<Evaluation(0, 9), Evaluation(0 - MaxPatterns - 1, 3)>>,
      malformed |-> FALSE],
     [evaluations |-> <<Evaluation(0, 0 - 1)>>, malformed |-> FALSE]}

UncheckedOracle ==
    [decompositions |-> {EmptyDecomposition},
     plans |-> {EmptyPlan},
     pattern_lists |-> UncheckedPatternLists,
     evaluation_lists |-> UncheckedEvaluationLists,
     metas |-> MemoryMetas,
     syntheses |-> {EmptySynthesis}]

UncheckedInit ==
    /\ \E cap \in 1..MaxHypCap :
         config = Config(MemoryRounds, DEFAULT_MAX_OBSERVATIONS, DEFAULT_MAX_TRAIL, cap)
    /\ oracle = UncheckedOracle
    /\ InitialState
    /\ NoTraversal

UncheckedSpec == UncheckedInit /\ [][Next]_vars

TrailOracle ==
    [decompositions |-> {EmptyDecomposition},
     plans |-> {EmptyPlan,
                [tool_calls |-> <<ToolCall("semantic_search", 1, FALSE),
                                  ToolCall("temporal_query", 1, FALSE)>>,
                 malformed |-> FALSE]},
     pattern_lists |-> {EmptyPatterns,
                        [patterns |-> <<7, 9, 7>>, malformed |-> FALSE]},
     evaluation_lists |-> {EmptyEvaluations,
                           [evaluations |-> <<Evaluation(0, 9)>>, malformed |-> FALSE]},
     metas |-> MemoryMetas,
     syntheses |-> {EmptySynthesis}]

TrailInit ==
    /\ \E tail \in 1..MaxTrailTail :
         config = Config(MemoryRounds, DEFAULT_MAX_OBSERVATIONS, TRAIL_HEAD + tail,
                         DEFAULT_MAX_HYPOTHESES)
    /\ oracle = TrailOracle
    /\ InitialState
    /\ NoTraversal

TrailSpec == TrailInit /\ [][Next]_vars

\* caps of the trail at or below the 10 head lines
SmallTrailInit ==
    /\ \E max_trail \in 1..MaxTrailTail :
         config = Config(MemoryRounds, DEFAULT_MAX_OBSERVATIONS, max_trail,
                         DEFAULT_MAX_HYPOTHESES)
    /\ oracle = TrailOracle
    /\ InitialState
    /\ NoTraversal

SmallTrailSpec == SmallTrailInit /\ [][Next]_vars

\* plans that call find_contradictions among other tools
ContentOracle ==
    [decompositions |-> {EmptyDecomposition},
     plans |-> {EmptyPlan,
                [tool_calls |-> <<ToolCall("semantic_search", 1, FALSE)>>,
                 malformed |-> FALSE],
                [tool_calls |-> <<ToolCall("find_contradictions", 0, FALSE)>>,
                 malformed |-> FALSE],
                [tool_calls |-> <<ToolCall("traverse_graph", 1, FALSE),
                                  ToolCall("find_contradictions", MaxResults, FALSE)>>,
                 malformed |-> FALSE]},
     pattern_lists |-> {EmptyPatterns, [patterns |-> <<9>>, malformed |-> FALSE]},
     evaluation_lists |-> {EmptyEvaluations},
     metas |-> MemoryMetas,
     syntheses |-> {EmptySynthesis}]

ContentInit ==
    /\ \E cap \in 1..MaxObsCap :
         config = Config(MemoryRounds, cap, DEFAULT_MAX_TRAIL, DEFAULT_MAX_HYPOTHESES)
    /\ oracle = ContentOracle
    /\ InitialState
    /\ NoTraversal

ContentSpec == ContentInit /\ [][Next]_vars

---------------------------------------------------------------------------
(* query(): the session followed by the return of its result.  result is   *)
(* <<>> until query() has returned; raises tells whether query() let the    *)
(* exception of app.invoke through.                                         *)

\* query() without its except clause
QueryResultWithoutExcept(failed, final_answer, final_confidence) ==
    [answer |-> final_answer, confidence |-> final_confidence, error |-> FALSE,
     raises |-> failed]

\* the dictionary query() returns: from final_state, or from the except clause
QueryResult(failed, final_answer, final_confidence) ==
    IF failed
    THEN [answer |-> "Error executing query", confidence |-> 0, error |-> TRUE,
          raises |-> FALSE]
    ELSE [answer |-> final_answer, confidence |-> final_confidence, error |-> FALSE,
          raises |-> FALSE]

\* app.invoke is over (it returned the final state or it raised): query() returns
query_return ==
    /\ pc \in {"end", "failed"}
    /\ result = <<>>
    /\ result' = QueryResult(pc = "failed", answer, confidence_score)
    /\ UNCHANGED <<store, table, edges, targs, tpc, failures, visited, current_level,
                   pending, next_level, hop, all_observations>>
    /\ UNCHANGED <<config, oracle, ingestVars, queryVars, sessionVars>>

QueryNext ==
    \/ Next
    \/ query_return

QuerySpec == Init /\ [][QueryNext]_vars

---------------------------------------------------------------------------
(* should_continue on its own: the inputs are drawn from bounded sets and  *)
(* the conditional edge is applied to them.                                *)

RouteInit ==
    /\ \E m \in 0..MaxIterations :
         config = Config(m, DEFAULT_MAX_OBSERVATIONS, DEFAULT_MAX_TRAIL,
                         DEFAULT_MAX_HYPOTHESES)
    /\ oracle = ControlOracle
    /\ pc = "route"
    /\ iterations \in 0..(MaxIterations + 1)
    /\ confidence_score \in ConfidenceScores
    /\ decision \in Decisions
    /\ sub_questions = <<>>
    /\ observations = <<>>
    /\ hypotheses = <<>>
    /\ evidence_trail = <<>>
    /\ answer = "None"
    /\ trace = <<>>
    /\ unpruned = <<>>
    /\ obs_total = 0
    /\ trail_total = 0
    /\ NoTraversal

RouteSpec == RouteInit /\ [][Route]_vars

---------------------------------------------------------------------------
(* traverse_graph on its own: any store over the ids, any arguments.       *)

\* the workflow's state while no session runs
NoWorkflow ==
    /\ config = Config(0, DEFAULT_MAX_OBSERVATIONS, DEFAULT_MAX_TRAIL,
                       DEFAULT_MAX_HYPOTHESES)
    /\ oracle = ControlOracle
    /\ pc = "idle"
    /\ sub_questions = <<>>
    /\ observations = <<>>
    /\ hypotheses = <<>>
    /\ evidence_trail = <<>>
    /\ iterations = 0
    /\ confidence_score = 0
    /\ decision = "CONTINUE"
    /\ answer = "None"
    /\ trace = <<>>
    /\ unpruned = <<>>
    /\ obs_total = 0
    /\ trail_total = 0

NoSession ==
    /\ NoQueries
    /\ NoWorkflow

Pairs(S) == {p \in S \X S : p[1] < p[2]}

\* the state at the first statement of the try block (lines 256-258)
TraverseInit ==
    /\ store \in SUBSET Ids
    /\ \E w \in [Pairs(store) -> {0} \cup Strengths] :
         edges = {[a |-> p[1], b |-> p[2], strength |-> w[p]] :
                    p \in {q \in Pairs(store) : w[q] > 0}}
    /\ targs \in [start_observation_id : Ids, max_hops : 0..MaxHops,
                  min_strength : MinStrengths]
    /\ tpc = "for_hop"
    /\ table = <<>>
    /\ failures = 0
    /\ visited = {}
    /\ current_level = {targs.start_observation_id}
    /\ pending = {}
    /\ next_level = {}
    /\ hop = -1
    /\ all_observations = <<>>
    /\ result = <<>>
    /\ NoSession
    /\ NoIngestion

TraverseSpec == TraverseInit /\ [][TraverseNext]_vars

---------------------------------------------------------------------------
(* The retrieval tools that run one query against the store.  A stored     *)
(* observation has an embedding, a document and the names of its surface    *)
(* form; an embedding is a direction in a plane, given by its step on a     *)
(* scale of equal angles.  An optional argument is <<>> (None) or <<v>>.    *)

EmbeddingAngles == 0..2

Docs == {"d1", "d2"}

Row(embedding, doc_id, surface_form) ==
    [embedding |-> embedding, doc_id |-> doc_id, surface_form |-> surface_form]

\* cosine similarity of two embeddings, tenths: 1.0 for the same direction, 0.7 one
\* step apart, 0.4 two steps apart
CosineSimilarity(a, b) == 10 - 3 * (IF a > b THEN a - b ELSE b - a)

\* the orders in which a query without ORDER BY may return the rows of S
Orders(S) ==
    {s \in [1..Cardinality(S) -> S] : \A i, j \in 1..Cardinality(S) : i # j => s[i] # s[j]}

\* the traversal's local variables, unused by the other tools
NoTraversalLoop ==
    /\ visited = {}
    /\ current_level = {}
    /\ next_level = {}
    /\ hop = -1
    /\ all_observations = <<>>

---------------------------------------------------------------------------
(* cluster_observations.  observation_ids is read by in_() only, which     *)
(* tests membership: the argument is the set of the list's ids.            *)

Thresholds == {5, 8}

\* a clustering that never skips an id
NeverAssigned(obs_id, assigned) == FALSE

\* if obs_id in assigned: continue
InAssigned(obs_id, assigned) == obs_id \in assigned

\* for j, other_id in enumerate(obs_ids): ...  (the inner loop, for the seed i)
RECURSIVE FindSimilar(_, _, _, _, _, _)
FindSimilar(rest, seed, cluster, assigned, rows, threshold) ==
    IF rest = <<>> THEN [cluster |-> cluster, assigned |-> assigned]
    ELSE LET other_id == Head(rest)
         IN  IF InAssigned(other_id, assigned)
             THEN FindSimilar(Tail(rest), seed, cluster, assigned, rows, threshold)
             ELSE IF CosineSimilarity(rows[seed].embedding, rows[other_id].embedding)
                       >= threshold
             THEN FindSimilar(Tail(rest), seed, Append(cluster, other_id),
                              assigned \cup {other_id}, rows, threshold)
             ELSE FindSimilar(Tail(rest), seed, cluster, assigned, rows, threshold)

\* for i, obs_id in enumerate(obs_ids): ...  (the outer loop)
RECURSIVE GreedyClusters(_, _, _, _, _, _)
GreedyClusters(rest, obs_ids, clusters, assigned, rows, threshold) ==
    IF rest = <<>> THEN clusters
    ELSE LET obs_id == Head(rest)
         IN  IF InAssigned(obs_id, assigned)
             THEN GreedyClusters(Tail(rest), obs_ids, clusters, assigned, rows, threshold)
             ELSE LET found == FindSimilar(obs_ids, obs_id, <<obs_id>>,
                                           assigned \cup {obs_id}, rows, threshold)
                  IN  GreedyClusters(Tail(rest), obs_ids, Append(clusters, found.cluster),
                                     found.assigned, rows, threshold)

\* cluster_observations: the try block
cluster_observations ==
    /\ tpc = "call"
    /\ \E obs_ids \in Orders(store \cap targs.observation_ids) :
         result' = IF obs_ids = <<>> THEN <<>>
                   ELSE GreedyClusters(obs_ids, obs_ids, <<>>, {}, table,
                                       targs.similarity_threshold)
    /\ tpc' = "returned"
    /\ UNCHANGED <<store, table, edges, targs, failures, visited, current_level, pending,
                   next_level, hop, all_observations>>
    /\ UNCHANGED <<config, oracle, ingestVars, queryVars, sessionVars>>

\* cluster_observations: except Exception: return []
cluster_observations_except ==
    /\ tpc = "call"
    /\ result' = <<>>
    /\ tpc' = "raised"
    /\ failures' = failures + 1
    /\ UNCHANGED <<store, table, edges, targs, visited, current_level, pending,
                   next_level, hop, all_observations>>
    /\ UNCHANGED <<config, oracle, ingestVars, queryVars, sessionVars>>

ClusterNext ==
    \/ cluster_observations
    \/ cluster_observations_except

ClusterInit ==
    /\ store \in SUBSET Ids
    /\ table \in [store -> {Row(e, "d1", {}) : e \in EmbeddingAngles}]
    /\ edges = {}
    /\ targs \in [observation_ids : SUBSET Ids, similarity_threshold : Thresholds]
    /\ tpc = "call"
    /\ failures = 0
    /\ pending = {}
    /\ result = <<>>
    /\ NoTraversalLoop
    /\ NoSession
    /\ NoIngestion

ClusterSpec == ClusterInit /\ [][ClusterNext]_vars

---------------------------------------------------------------------------
(* semantic_search.  filters is None or {'doc_id': d}; the rows carry no   *)
(* timestamp, so the date filter of lines 63-69 is never given.            *)

MinSimilarities == {0, 7}

\* an optional argument is falsy when it is None or 0
Truthy(opt) == opt # <<>> /\ opt[1] # 0

\* opt or default
OrDefault(opt, default) == IF Truthy(opt) THEN opt[1] ELSE default

\* Observation.embedding.cosine_distance(query_embedding), tenths
CosineDistance(a, b) == 10 - CosineSimilarity(a, b)

\* similarity = 1 - distance
SimilarityOf(distance) == 10 - distance

\* the rows the filters of lines 60-69 let through
Filtered(ids, rows, filters) ==
    {id \in ids : filters = <<>> \/ rows[id].doc_id = filters[1]}

\* order_by('distance'): the orders of S with ascending distance (ties in any order)
OrderedByDistance(S, rows, query_embedding) ==
    {s \in Orders(S) :
        \A i, j \in DOMAIN s :
            i < j => CosineDistance(rows[s[i]].embedding, query_embedding)
                       <= CosineDistance(rows[s[j]].embedding, query_embedding)}

\* the loop of lines 75-88 over the rows the query returned
Converted(results, rows, query_embedding, min_similarity) ==
    LET similarity(id) == SimilarityOf(CosineDistance(rows[id].embedding, query_embedding))
        kept == SelectSeq(results, LAMBDA id : similarity(id) >= min_similarity)
    IN  [i \in DOMAIN kept |-> [id |-> kept[i], similarity |-> similarity(kept[i])]]

\* semantic_search: the try block
semantic_search ==
    /\ tpc = "call"
    /\ LET k == OrDefault(targs.k, config.SEMANTIC_SEARCH_K)
       IN  \E ranked \in OrderedByDistance(Filtered(store, table, targs.filters), table,
                                           targs.query_embedding) :
             result' = Converted(SliceTo(ranked, k), table, targs.query_embedding,
                                 targs.min_similarity)
    /\ tpc' = "returned"
    /\ UNCHANGED <<store, table, edges, targs, failures, visited, current_level, pending,
                   next_level, hop, all_observations>>
    /\ UNCHANGED <<config, oracle, ingestVars, queryVars, sessionVars>>

\* semantic_search: except Exception: return []  (the query fails, or a row cannot
\* be converted)
semantic_search_except ==
    /\ tpc = "call"
    /\ result' = <<>>
    /\ tpc' = "raised"
    /\ failures' = failures + 1
    /\ UNCHANGED <<store, table, edges, targs, visited, current_level, pending,
                   next_level, hop, all_observations>>
    /\ UNCHANGED <<config, oracle, ingestVars, queryVars, sessionVars>>

SearchNext ==
    \/ semantic_search
    \/ semantic_search_except

SearchInit ==
    /\ store \in SUBSET Ids
    /\ table \in [store -> {Row(e, d, {}) : e \in EmbeddingAngles, d \in Docs}]
    /\ edges = {}
    /\ targs \in [query_embedding : EmbeddingAngles,
                  k : {<<>>} \cup {<<n>> : n \in 0..MaxK},
                  min_similarity : MinSimilarities,
                  filters : {<<>>, <<"d1">>}]
    /\ tpc = "call"
    /\ failures = 0
    /\ pending = {}
    /\ result = <<>>
    /\ NoTraversalLoop
    /\ NoSession
    /\ NoIngestion

SearchSpec == SearchInit /\ [][SearchNext]_vars

---------------------------------------------------------------------------
(* find_cooccurrences.  The edges are the ones ingestion creates: between  *)
(* adjacent chunks (consecutive ids), of type 'adjacent_chunks' and         *)
(* strength 1.0, at a distance in characters.                               *)

Distances == {1, 2}
MaxDistances == {<<>>, <<0>>, <<1>>}
Limits == {1, 2}

\* ObservationCooccurrence(obs_a_id, obs_b_id, distance, ...)
Cooccurrence(a, b, distance) ==
    [a |-> a, b |-> b, distance |-> distance, co_occurrence_type |-> "adjacent_chunks",
     strength |-> 10]

\* an optional string argument is given (the empty string is never passed)
Given(opt) == opt # <<>>

\* the join and the filters of lines 125-142: a row is an edge that touches
\* observation_id together with an observation that is one of the edge's endpoints
JoinedRows(ids, es, observation_id, max_distance) ==
    {<<cooc, obs>> \in es \X ids :
        /\ obs = cooc.b \/ obs = cooc.a
        /\ cooc.a = observation_id \/ cooc.b = observation_id
        /\ Truthy(max_distance) => cooc.distance <= max_distance[1]}

\* query.limit(limit).all(): any limit of the rows, in any order
Limited(rows, limit) ==
    LET n == Min(limit, Cardinality(rows))
    IN  {s \in [1..n -> rows] : \A i, j \in 1..n : i # j => s[i] # s[j]}

\* the loop of lines 146-156
CooccurrenceRecords(coocs) ==
    [i \in DOMAIN coocs |->
        [id |-> coocs[i][2],
         distance |-> coocs[i][1].distance,
         co_occurrence_type |-> coocs[i][1].co_occurrence_type,
         strength |-> coocs[i][1].strength]]

\* the lists find_cooccurrences(observation_id=id, ...) may return when its
\* lookup succeeds
DirectCooccurrences(ids, es, observation_id, max_distance, limit) ==
    {CooccurrenceRecords(coocs) :
        coocs \in Limited(JoinedRows(ids, es, observation_id, max_distance), limit)}

\* Observation.surface_form.like(f"%{surface_form}%"): the name occurs in the column
Like(column, surface_form) == surface_form \in column

\* .limit(10) of the query for obs_with_form
OBS_WITH_FORM_LIMIT == 10

\* the rows a query over S with .limit(n) may return
LimitedRows(S, n) == {P \in SUBSET S : Cardinality(P) = Min(n, Cardinality(S))}

\* find_cooccurrences up to the return or to the loop over obs_with_form
find_cooccurrences ==
    /\ tpc = "call"
    /\ IF Truthy(targs.observation_id)
       THEN /\ result' \in DirectCooccurrences(store, edges, targs.observation_id[1],
                                               targs.max_distance, targs.limit)
            /\ tpc' = "returned"
            /\ UNCHANGED pending
       ELSE IF Given(targs.surface_form)
       THEN /\ pending' \in LimitedRows({id \in store : Like(table[id].surface_form,
                                                           targs.surface_form[1])},
                                        OBS_WITH_FORM_LIMIT)
            /\ result' = <<>>
            /\ tpc' = "for_obs"
       ELSE /\ result' = <<>>
            /\ tpc' = "returned"
            /\ UNCHANGED pending
    /\ UNCHANGED <<store, table, edges, targs, failures, visited, current_level,
                   next_level, hop, all_observations>>
    /\ UNCHANGED <<config, oracle, ingestVars, queryVars, sessionVars>>

\* one pass of: for obs in obs_with_form: results.extend(find_cooccurrences(obs.id))
\* (the nested call returns [] when its own lookup fails)
ExtendWithCooccurrences ==
    /\ tpc = "for_obs"
    /\ \E obs \in pending :
         /\ pending' = pending \ {obs}
         /\ \/ /\ \E coocs \in DirectCooccurrences(store, edges, obs, targs.max_distance,
                                                   targs.limit) :
                    result' = result \o coocs
               /\ UNCHANGED failures
            \/ /\ result' = result \o <<>>
               /\ failures' = failures + 1
    /\ UNCHANGED <<store, table, edges, targs, tpc, visited, current_level,
                   next_level, hop, all_observations>>
    /\ UNCHANGED <<config, oracle, ingestVars, queryVars, sessionVars>>

\* the loop over obs_with_form is over: return results
ReturnCooccurrences ==
    /\ tpc = "for_obs"
    /\ pending = {}
    /\ tpc' = "returned"
    /\ UNCHANGED <<store, table, edges, targs, failures, visited, current_level, pending,
                   next_level, hop, all_observations, result>>
    /\ UNCHANGED <<config, oracle, ingestVars, queryVars, sessionVars>>

\* find_cooccurrences: except Exception: return []  (a lookup of this call fails)
find_cooccurrences_except ==
    /\ tpc = "call"
    /\ Truthy(targs.observation_id) \/ Given(targs.surface_form)
    /\ result' = <<>>
    /\ tpc' = "raised"
    /\ failures' = failures + 1
    /\ UNCHANGED <<store, table, edges, targs, visited, current_level, pending,
                   next_level, hop, all_observations>>
    /\ UNCHANGED <<config, oracle, ingestVars, queryVars, sessionVars>>

CooccurrenceNext ==
    \/ find_cooccurrences
    \/ ExtendWithCooccurrences
    \/ ReturnCooccurrences
    \/ find_cooccurrences_except

\* the table: observations 1..n, the names of each surface form, and the edges
\* between adjacent chunks
CooccurrenceInit ==
    /\ \E n \in 0..MaxNodes : store = 1..n
    /\ targs \in [surface_form : {<<>>, <<"X">>},
                  observation_id : {<<>>} \cup {<<id>> : id \in Ids},
                  max_distance : MaxDistances,
                  limit : Limits]
    /\ table \in [store -> {Row(0, "d1", names) :
                              names \in IF Truthy(targs.observation_id)
                                        THEN {{}} ELSE {{}, {"X"}}}]
    /\ \E d \in [{p \in Pairs(store) : p[2] = p[1] + 1} -> {0} \cup Distances] :
         edges = {Cooccurrence(p[1], p[2], d[p]) : p \in {q \in DOMAIN d : d[q] > 0}}
    /\ tpc = "call"
    /\ failures = 0
    /\ pending = {}
    /\ result = <<>>
    /\ NoTraversalLoop
    /\ NoSession
    /\ NoIngestion

CooccurrenceSpec == CooccurrenceInit /\ [][CooccurrenceNext]_vars

---------------------------------------------------------------------------
(* Ingestion: _process_batch, one store statement per step, so that calls  *)
(* running at the same time interleave.  Each call has its own session     *)
(* (transaction): rows it saved are in tx_observations / tx_edges until the *)
(* commit puts them into the store.  A file is the number of observations   *)
(* _process_file returns for it.                                            *)

Batches == UNION {[1..n -> 0..MaxChunks] : n \in 1..MaxFiles}

\* the locals of _process_batch at the start of its try block
RunStart(files, flush_threshold) ==
    [ipc |-> "file", files |-> files, file_no |-> 1, FLUSH_THRESHOLD |-> flush_threshold,
     pending_observations |-> <<>>, saved |-> <<>>, tx_observations |-> {},
     tx_edges |-> {}, raised |-> FALSE]

\* the Observation objects _process_file returns for a file of n chunks
FileObservations(r, file_no, n) ==
    [c \in 1..n |-> [run |-> r, doc_id |-> file_no, chunk_index |-> c - 1]]

\* a commit that loses the rows
CommittedNone(committed, rows) == committed

\* session.commit(): the rows of the transaction join the committed ones
Committed(committed, rows) == committed \cup rows

\* observations = self._process_file(file_path); pending_observations.extend(...);
\* if len(pending_observations) >= FLUSH_THRESHOLD: flush
ProcessFile(r) ==
    /\ runs[r].ipc = "file"
    /\ runs[r].files # <<>>
    /\ LET new == runs[r].pending_observations \o
                  FileObservations(r, runs[r].file_no, Head(runs[r].files))
       IN  runs' = [runs EXCEPT
                      ![r].pending_observations = new,
                      ![r].files = Tail(@),
                      ![r].file_no = @ + 1,
                      ![r].ipc = IF Len(new) >= runs[r].FLUSH_THRESHOLD /\ new # <<>>
                                 THEN "save" ELSE "file"]
    /\ UNCHANGED <<next_id, store, table, edges>>

\* the loops are over: flush the remaining observations, if any, and leave
EndOfFiles(r) ==
    /\ runs[r].ipc = "file"
    /\ runs[r].files = <<>>
    /\ runs' = [runs EXCEPT
                  ![r].ipc = IF runs[r].pending_observations # <<>> THEN "save" ELSE "done"]
    /\ UNCHANGED <<next_id, store, table, edges>>

\* session.bulk_save_objects(pending_observations): the rows get their ids
BulkSaveObservations(r) ==
    /\ runs[r].ipc = "save"
    /\ LET rows == [i \in DOMAIN runs[r].pending_observations |->
                       [id |-> next_id + i - 1,
                        run |-> r,
                        doc_id |-> runs[r].pending_observations[i].doc_id,
                        chunk_index |-> runs[r].pending_observations[i].chunk_index]]
       IN  /\ runs' = [runs EXCEPT ![r].saved = rows,
                                   ![r].tx_observations = {rows[i] : i \in DOMAIN rows},
                                   ![r].ipc = "commit"]
           /\ next_id' = next_id + Len(rows)
    /\ UNCHANGED <<store, table, edges>>

\* session.commit() after the observations were saved
CommitObservations(r) ==
    /\ runs[r].ipc = "commit"
    /\ store' = Committed(store, {row.id : row \in runs[r].tx_observations})
    /\ table' = [id \in store' |->
                    IF id \in store THEN table[id]
                    ELSE CHOOSE row \in runs[r].tx_observations : row.id = id]
    /\ runs' = [runs EXCEPT ![r].tx_observations = {}, ![r].ipc = "edges"]
    /\ UNCHANGED <<next_id, edges>>

\* the edges _create_cooccurrences builds: between adjacent chunks of a document
AdjacentChunks(r, saved) ==
    {[a |-> saved[i].id, b |-> saved[i + 1].id, run |-> r] :
        i \in {j \in 1..(Len(saved) - 1) : saved[j].doc_id = saved[j + 1].doc_id}}

\* _create_cooccurrences up to session.bulk_save_objects(cooccurrences); without
\* edges the flush is over
CreateCooccurrences(r) ==
    /\ runs[r].ipc = "edges"
    /\ LET cooccurrences == AdjacentChunks(r, runs[r].saved)
       IN  runs' = IF cooccurrences # {}
                   THEN [runs EXCEPT ![r].tx_edges = cooccurrences,
                                     ![r].ipc = "commit_edges"]
                   ELSE [runs EXCEPT ![r].pending_observations = <<>>,
                                     ![r].saved = <<>>,
                                     ![r].ipc = "file"]
    /\ UNCHANGED <<next_id, store, table, edges>>

\* _create_cooccurrences: session.commit(); then pending_observations = []
CommitCooccurrences(r) ==
    /\ runs[r].ipc = "commit_edges"
    /\ edges' = Committed(edges, runs[r].tx_edges)
    /\ runs' = [runs EXCEPT ![r].tx_edges = {},
                            ![r].pending_observations = <<>>,
                            ![r].saved = <<>>,
                            ![r].ipc = "file"]
    /\ UNCHANGED <<next_id, store, table>>

\* a store statement of the batch raises (constraint violation, store error):
\* except Exception: session.rollback(); finally: session.close()
ProcessBatchExcept(r) ==
    /\ runs[r].ipc \in {"save", "commit", "edges", "commit_edges"}
    /\ runs' = [runs EXCEPT ![r].tx_observations = {},
                            ![r].tx_edges = {},
                            ![r].raised = TRUE,
                            ![r].ipc = "done"]
    /\ UNCHANGED <<next_id, store, table, edges>>

IngestNext ==
    /\ \E r \in DOMAIN runs :
         \/ ProcessFile(r)
         \/ EndOfFiles(r)
         \/ BulkSaveObservations(r)
         \/ CommitObservations(r)
         \/ CreateCooccurrences(r)
         \/ CommitCooccurrences(r)
         \/ ProcessBatchExcept(r)
    /\ UNCHANGED <<targs, tpc, failures, visited, current_level, pending, next_level, hop,
                   all_observations, result>>
    /\ UNCHANGED <<config, oracle, queryVars, sessionVars, chunking>>

\* two _process_batch calls at the same time on an empty store: one with any
\* batch, one with a single file
IngestInit ==
    /\ \E files \in Batches, flush_threshold \in 1..MaxFlushThreshold :
         runs = <<RunStart(files, flush_threshold),
                  RunStart(<<MaxChunks>>, flush_threshold)>>
    /\ next_id = 1
    /\ chunking = <<>>
    /\ NoRetrieval
    /\ NoSession

IngestSpec == IngestInit /\ [][IngestNext]_vars

---------------------------------------------------------------------------
(* find_contradictions.  The context of an observation is the set of its    *)
(* tokens; a keyword is in a text when it is a substring of the lowercased  *)
(* text, so 'no' is in 'innocent'.                                          *)

contradiction_keywords ==
    <<  <<"yes", "no">>, <<"true", "false">>, <<"approved", "denied">>,
        <<"confirmed", "refuted">>, <<"guilty", "innocent">>, <<"present", "absent">> >>

Contexts == {{"yes"}, {"NO"}, {"innocent"}, {"Guilty"}}

\* str.lower()
Lower(text) ==
    {IF token = "NO" THEN "no" ELSE IF token = "Guilty" THEN "guilty" ELSE token :
        token \in text}

\* word in text
In(word, text) ==
    \/ word \in text
    \/ word = "no" /\ "innocent" \in text

ContextRow(embedding, context) ==
    [embedding |-> embedding, doc_id |-> "d1", surface_form |-> {}, context |-> context]

\* the inner loop's test over contradiction_keywords
OpposingTerms(obs1, obs2) ==
    LET text1 == Lower(obs1.context)
        text2 == Lower(obs2.context)
    IN  \E n \in DOMAIN contradiction_keywords :
           LET word1 == contradiction_keywords[n][1]
               word2 == contradiction_keywords[n][2]
           IN  \/ In(word1, text1) /\ In(word2, text2)
               \/ In(word2, text1) /\ In(word1, text2)

\* the two loops over observations
Contradictions(found_observations) ==
    Concat([i \in DOMAIN found_observations |->
              LET obs1 == found_observations[i]
                  later == SubSeq(found_observations, i + 1, Len(found_observations))
                  opposing == SelectSeq(later, LAMBDA obs2 : OpposingTerms(obs1, obs2))
              IN  [j \in DOMAIN opposing |->
                     <<obs1, opposing[j], 10 - opposing[j].similarity>>]])

\* find_contradictions: the try block; the rows found are kept in all_observations
find_contradictions ==
    /\ tpc = "call"
    /\ LET k == OrDefault(<<targs.k * 2>>, config.SEMANTIC_SEARCH_K)
       IN  \E ranked \in OrderedByDistance(store, table, targs.query_embedding) :
             LET found == Converted(SliceTo(ranked, k), table, targs.query_embedding, 0)
                 found_observations == [i \in DOMAIN found |->
                                    [id |-> found[i].id, similarity |-> found[i].similarity,
                                     context |-> table[found[i].id].context]]
             IN  /\ all_observations' = found_observations
                 /\ result' = IF Len(found_observations) < 2 THEN <<>>
                              ELSE Contradictions(found_observations)
    /\ tpc' = "returned"
    /\ UNCHANGED <<store, table, edges, targs, failures, visited, current_level, pending,
                   next_level, hop>>
    /\ UNCHANGED <<config, oracle, ingestVars, queryVars, sessionVars>>

\* the search inside fails: semantic_search returns [], fewer than two results
find_contradictions_without_results ==
    /\ tpc = "call"
    /\ all_observations' = <<>>
    /\ result' = <<>>
    /\ failures' = failures + 1
    /\ tpc' = "returned"
    /\ UNCHANGED <<store, table, edges, targs, visited, current_level, pending,
                   next_level, hop>>
    /\ UNCHANGED <<config, oracle, ingestVars, queryVars, sessionVars>>

\* find_contradictions: except Exception: return []
find_contradictions_except ==
    /\ tpc = "call"
    /\ result' = <<>>
    /\ tpc' = "raised"
    /\ failures' = failures + 1
    /\ UNCHANGED <<store, table, edges, targs, visited, current_level, pending,
                   next_level, hop, all_observations>>
    /\ UNCHANGED <<config, oracle, ingestVars, queryVars, sessionVars>>

ContradictionNext ==
    \/ find_contradictions
    \/ find_contradictions_without_results
    \/ find_contradictions_except

ContradictionInit ==
    /\ \E n \in 0..MaxNodes : store = 1..n
    /\ table \in [store -> {ContextRow(e, c) : e \in EmbeddingAngles, c \in Contexts}]
    /\ edges = {}
    /\ targs \in [query_embedding : EmbeddingAngles, k : 0..MaxK]
    /\ tpc = "call"
    /\ failures = 0
    /\ pending = {}
    /\ result = <<>>
    /\ NoTraversalLoop
    /\ NoSession
    /\ NoIngestion

ContradictionSpec == ContradictionInit /\ [][ContradictionNext]_vars

---------------------------------------------------------------------------
(* _chunk_document.  A word is its number of characters, a text the list    *)
(* of its words; the content may hold more whitespace than the single       *)
(* spaces ' '.join puts between the words.                                  *)

MinObservationLengths == {3, 4}
ExtraWhitespace == {0, 2}
Documents == UNION {[1..n -> 1..MaxWordLength] : n \in 0..MaxWords}

\* s[a:b]
Slice(s, a, b) ==
    LET start == IF a < 0 THEN Max(Len(s) + a, 0) ELSE Min(a, Len(s))
        stop == IF b < 0 THEN Max(Len(s) + b, 0) ELSE Min(b, Len(s))
    IN  SubSeq(s, start + 1, stop)

RECURSIVE Sum(_)
Sum(ws) == IF ws = <<>> THEN 0 ELSE Head(ws) + Sum(Tail(ws))

\* len(' '.join(ws))
JoinedLength(ws) == IF ws = <<>> THEN 0 ELSE Sum(ws) + Len(ws) - 1

\* a length test that lets every text through
AnyLength(length, minimum) == TRUE

\* len(chunk_text) >= config.MIN_OBSERVATION_LENGTH
LongEnough(length, minimum) == length >= minimum

\* content.strip(), the length test on the content, words = content.split()
ChunkDocumentEnter ==
    /\ chunking.cpc = "called"
    /\ chunking' =
         IF ~LongEnough(JoinedLength(chunking.words) + chunking.extra_whitespace,
                        chunking.MIN_OBSERVATION_LENGTH)
         THEN [chunking EXCEPT !.cpc = "done"]
         ELSE [chunking EXCEPT !.cpc = "loop"]
    /\ UNCHANGED <<runs, next_id>>

\* one pass of: while i < len(words)
ChunkDocumentPass ==
    /\ chunking.cpc = "loop"
    /\ chunking.i < Len(chunking.words)
    /\ chunking.passes < MaxLoopPasses
    /\ LET words == chunking.words
           i == chunking.i
           chunk_words == Slice(words, i, i + chunking.chunk_size)
           start_pos == JoinedLength(Slice(words, 0, i))
           chunk == [text |-> chunk_words, start |-> start_pos,
                     end |-> start_pos + JoinedLength(chunk_words),
                     index |-> chunking.chunk_index]
           kept == LongEnough(JoinedLength(chunk_words), chunking.MIN_OBSERVATION_LENGTH)
       IN  chunking' = [chunking EXCEPT
               !.chunks = IF kept THEN Append(@, chunk) ELSE @,
               !.chunk_index = IF kept THEN @ + 1 ELSE @,
               !.i = @ + (chunking.chunk_size - chunking.chunk_overlap),
               !.passes = @ + 1]
    /\ UNCHANGED <<runs, next_id>>

\* return chunks
ChunkDocumentReturn ==
    /\ chunking.cpc = "loop"
    /\ ~(chunking.i < Len(chunking.words))
    /\ chunking' = [chunking EXCEPT !.cpc = "done"]
    /\ UNCHANGED <<runs, next_id>>

ChunkNext ==
    /\ \/ ChunkDocumentEnter
       \/ ChunkDocumentPass
       \/ ChunkDocumentReturn
    /\ UNCHANGED <<targs, tpc, failures, visited, current_level, pending, next_level, hop,
                   all_observations, result, store, table, edges>>
    /\ UNCHANGED <<config, oracle, queryVars, sessionVars>>

ChunkInit ==
    /\ \E words \in Documents, extra \in ExtraWhitespace,
          minimum \in MinObservationLengths,
          chunk_size \in 1..MaxChunkSize, chunk_overlap \in 0..MaxChunkSize :
         chunking = [cpc |-> "called", words |-> words, extra_whitespace |-> extra,
                     MIN_OBSERVATION_LENGTH |-> minimum,
                     chunk_size |-> chunk_size, chunk_overlap |-> chunk_overlap,
                     i |-> 0, chunk_index |-> 0, chunks |-> <<>>, passes |-> 0]
    /\ runs = <<>>
    /\ next_id = 1
    /\ NoRetrieval
    /\ NoSession

ChunkSpec == ChunkInit /\ [][ChunkNext]_vars

\* the call keeps running: a statement that can be executed is executed
ChunkFairSpec == ChunkSpec /\ WF_vars(ChunkNext)

---------------------------------------------------------------------------
(* Several query() calls on one agent, made without a session_id, one      *)
(* after the other or at the same time.  The agent's MemorySaver keeps one  *)
(* state per thread id; observations and evidence_trail are declared with   *)
(* the add reducer, so what a run contributes is appended to what the       *)
(* thread already holds.  An entry of working memory is the call it came    *)
(* from.                                                                    *)

Calls == 1..MaxCalls

\* f"session_{datetime.now().strftime('%Y%m%d_%H%M%S')}"
SessionId(now, c) == <<now>>

\* a second passes
Tick ==
    /\ clock < MaxClock
    /\ clock' = clock + 1
    /\ UNCHANGED <<sessions, checkpoints>>

\* query(): the session id and the thread id are made
QueryStart(c) ==
    /\ sessions[c].qpc = "called"
    /\ sessions' = [sessions EXCEPT ![c].qpc = "invoke",
                                    ![c].session_id = SessionId(clock, c)]
    /\ UNCHANGED <<clock, checkpoints>>

\* app.invoke(initial_state, config_dict): the run works on the state of its
\* thread and saves it there
QueryInvoke(c) ==
    /\ sessions[c].qpc = "invoke"
    /\ LET thread_id == sessions[c].session_id
           held == IF thread_id \in DOMAIN checkpoints THEN checkpoints[thread_id]
                                                        ELSE <<>>
           memory == held \o <<c>>
       IN  /\ checkpoints' = [t \in DOMAIN checkpoints \cup {thread_id} |->
                                 IF t = thread_id THEN memory ELSE checkpoints[t]]
           /\ sessions' = [sessions EXCEPT ![c].qpc = "returned",
                                           ![c].observations = memory]
    /\ UNCHANGED clock

QueriesNext ==
    /\ \/ Tick
       \/ \E c \in Calls : QueryStart(c)
       \/ \E c \in Calls : QueryInvoke(c)
    /\ UNCHANGED <<targs, tpc, failures, visited, current_level, pending, next_level, hop,
                   all_observations, result, store, table, edges>>
    /\ UNCHANGED <<config, oracle, ingestVars, sessionVars>>

QueriesInit ==
    /\ clock = 0
    /\ sessions = [c \in Calls |-> [qpc |-> "called", session_id |-> <<>>,
                                    observations |-> <<>>]]
    /\ checkpoints = <<>>
    /\ NoIngestion
    /\ NoRetrieval
    /\ NoWorkflow

QueriesSpec == QueriesInit /\ [][QueriesNext]_vars

---------------------------------------------------------------------------
(* The session under the compiled graph.  observations and evidence_trail   *)
(* are channels with the reducer operator.add: what a node returns for them *)
(* is combined with the value the channel holds.  Every node returns the    *)
(* whole state it was given.  checkpoints holds the channel values of the   *)
(* session's thread and the number of nodes whose return has been merged.   *)
(* A node changes its lists in place (append, extend) unless it prunes      *)
(* them, and whether the channel holds the very list object the node was    *)
(* given or a copy of it depends on the graph library, so both are allowed. *)

\* the node that ran last
LastNode == IF trace = <<>> THEN "none" ELSE trace[Len(trace)]

Thread == "session"

\* operator.add on two lists
Add(current, update) == current \o update

\* the list object the node was given, as the node left it
GivenObservations == IF LastNode = "gather" THEN unpruned ELSE observations

GivenTrail == IF LastNode = "meta_reason" THEN unpruned ELSE evidence_trail

\* the return of the node that just ran is merged into the channels, and the next
\* node is given the channel values
MergeState ==
    /\ pc # "failed"
    /\ checkpoints[Thread].merged < Len(trace)
    /\ \E shared \in BOOLEAN :
         LET held_observations == IF shared THEN GivenObservations
                                            ELSE checkpoints[Thread].observations
             held_trail == IF shared THEN GivenTrail
                                     ELSE checkpoints[Thread].evidence_trail
         IN  /\ observations' = Add(held_observations, observations)
             /\ evidence_trail' = Add(held_trail, evidence_trail)
    /\ checkpoints' = [t \in {Thread} |->
                         [observations |-> observations', evidence_trail |-> evidence_trail',
                          merged |-> Len(trace)]]
    /\ UNCHANGED <<pc, sub_questions, hypotheses, iterations, confidence_score, decision,
                   answer, trace, unpruned, obs_total, trail_total>>
    /\ UNCHANGED <<config, oracle, ingestVars, traverseVars, clock, sessions>>

ReducerNext ==
    \/ /\ checkpoints[Thread].merged = Len(trace)
       /\ SessionNext
    \/ MergeState

ReducerOracle ==
    [decompositions |-> {EmptyDecomposition},
     plans |-> {EmptyPlan,
                [tool_calls |-> <<ToolCall("semantic_search", MaxResults, FALSE)>>,
                 malformed |-> FALSE]},
     pattern_lists |-> {EmptyPatterns},
     evaluation_lists |-> {EmptyEvaluations},
     metas |-> MemoryMetas,
     syntheses |-> {EmptySynthesis}]

ReducerInit ==
    /\ \E max_obs \in 1..MaxObsCap :
         config = Config(2, max_obs, DEFAULT_MAX_TRAIL, DEFAULT_MAX_HYPOTHESES)
    /\ oracle = ReducerOracle
    /\ InitialState
    /\ clock = 0
    /\ sessions = <<>>
    /\ checkpoints = [t \in {Thread} |->
                        [observations |-> <<>>, evidence_trail |-> <<>>, merged |-> 0]]
    /\ NoIngestion
    /\ NoRetrieval

ReducerSpec == ReducerInit /\ [][ReducerNext]_vars

---------------------------------------------------------------------------
(* Properties *)

Ended == pc \in {"end", "failed"}

MetaCount == Cardinality({i \in DOMAIN trace : trace[i] = "meta_reason"})

\* the last n elements of s
LastN(s, n) == SubSeq(s, Len(s) - n + 1, Len(s))

\* C1: whatever the Oracle answers and whatever MAX_ITERATIONS >= 0 is, a session
\* executes meta_reasoning at most MAX_ITERATIONS + 1 times and reaches its end.
C1_TerminatesWithinLimit ==
    /\ [](MetaCount <= config.MAX_ITERATIONS + 1)
    /\ <>Ended

\* a session ended by the ceiling after the Oracle answered CONTINUE every time
C1_Witness ==
    /\ pc = "end"
    /\ config.MAX_ITERATIONS > LOW_CONFIDENCE_ITERATIONS
    /\ MetaCount = config.MAX_ITERATIONS
    /\ \A i \in DOMAIN evidence_trail :
         evidence_trail[i].kind = "meta" => evidence_trail[i].arg[2] = "CONTINUE"

\* C2: at the end of each gather step the observation list is no longer than the
\* cap (any cap >= 0) and is the suffix of the previous list followed by the
\* step's results.
C2_ObservationsPrunedToCap ==
    (pc = "detect_patterns" /\ LastNode = "gather") =>
        /\ Len(observations) <= config.MAX_OBSERVATIONS_IN_MEMORY
        /\ observations =
             LastN(unpruned, Min(config.MAX_OBSERVATIONS_IN_MEMORY, Len(unpruned)))

\* C3: the route taken after meta_reasoning is the routing table's: stop at the
\* iteration ceiling; else synthesize on SYNTHESIZE or confidence >= 8.0; else stop
\* on STOP or (confidence < 5.0 and iterations >= 5); else back to gather; one of
\* the three routes for every input, unknown decision strings included.
TableStop ==
    \/ iterations >= config.MAX_ITERATIONS
    \/ /\ decision # "SYNTHESIZE"
       /\ confidence_score < 80
       /\ decision = "STOP" \/ (confidence_score < 50 /\ iterations >= 5)

TableSynthesize ==
    /\ iterations < config.MAX_ITERATIONS
    /\ decision = "SYNTHESIZE" \/ confidence_score >= 80

C3_RoutingTable ==
    pc # "route" =>
        /\ pc \in {"gather", "synthesize", "end"}
        /\ pc = "end" <=> TableStop
        /\ pc = "synthesize" <=> TableSynthesize
        /\ pc = "gather" <=> (~TableStop /\ ~TableSynthesize)

\* the low-confidence stop taken on a decision string the table does not name
C3_Witness ==
    /\ pc = "end"
    /\ decision = "MAYBE"
    /\ iterations < config.MAX_ITERATIONS
    /\ iterations >= 5
    /\ confidence_score = 49

\* C4: once iterations >= MAX_ITERATIONS at the routing step the session ends at
\* once, whatever decision and confidence are, and no node runs afterwards.
C4_HardCeiling ==
    [][/\ (pc = "route" /\ iterations >= config.MAX_ITERATIONS) => pc' = "end"
       /\ pc = "end" => (pc' = "end" /\ trace' = trace)]_vars

\* the ceiling ended a session whose Oracle had asked for the synthesis
C4_Witness ==
    /\ pc = "end"
    /\ LastNode = "meta_reason"
    /\ iterations >= config.MAX_ITERATIONS
    /\ decision = "SYNTHESIZE"
    /\ confidence_score >= SYNTHESIZE_CONFIDENCE

\* C5 as stated: whenever meta_reasoning recorded confidence >= 8.0 with decision
\* CONTINUE, the routing step selects synthesize.
C5_ConfidenceOverrideAlways ==
    [][(pc = "route" /\ decision = "CONTINUE" /\ confidence_score >= 80)
          => pc' = "synthesize"]_vars

\* C5 amended: whenever meta_reasoning recorded confidence >= 8.0 with decision
\* CONTINUE and the iteration counter is below MAX_ITERATIONS, the routing step
\* selects synthesize.
C5_ConfidenceOverrideBelowCeiling ==
    [][(/\ pc = "route"
        /\ decision = "CONTINUE"
        /\ confidence_score >= 80
        /\ iterations < config.MAX_ITERATIONS)
          => pc' = "synthesize"]_vars

\* synthesize was selected on confidence 8.5 although the decision was CONTINUE
C5_Witness ==
    /\ pc = "synthesize"
    /\ LastNode = "meta_reason"
    /\ decision = "CONTINUE"
    /\ confidence_score = 85

\* C6: decompose runs once and first; then rounds of gather, detect_patterns,
\* test_hypotheses, meta_reasoning in that order; synthesize at most once, directly
\* after a meta_reasoning, and last; a session that ended without an exception ran
\* at least one full round; nothing runs after the end.
Round == <<"gather", "detect_patterns", "test_hypotheses", "meta_reason">>

InOrder(t) ==
    \A i \in DOMAIN t :
        IF i = 1 THEN t[i] = "decompose"
        ELSE \/ t[i] = Round[((i - 2) % 4) + 1]
             \/ /\ t[i] = "synthesize"
                /\ i = Len(t)
                /\ t[i - 1] = "meta_reason"

C6_StepOrder ==
    /\ [](/\ InOrder(trace)
          /\ pc \in Nodes => InOrder(trace \o <<pc>>)
          /\ pc = "end" => (MetaCount >= 1 /\ LastNode \in {"meta_reason", "synthesize"})
          /\ pc = "route" => LastNode = "meta_reason")
    /\ [][Ended => (pc' = pc /\ trace' = trace)]_vars

\* two full rounds and then the synthesis
C6_Witness ==
    /\ pc = "end"
    /\ Len(trace) = 10
    /\ LastNode = "synthesize"

Rank(hs, i) ==
    1 + Cardinality({j \in DOMAIN hs :
                       \/ hs[j].confidence > hs[i].confidence
                       \/ hs[j].confidence = hs[i].confidence /\ j < i})

AtRank(hs, r) == hs[CHOOSE i \in DOMAIN hs : Rank(hs, i) = r]

C8_HypothesesPrunedToCap ==
    (pc = "test_hypotheses" /\ LastNode = "detect_patterns") =>
        /\ Len(hypotheses) <= config.MAX_HYPOTHESES
        /\ Len(unpruned) > config.MAX_HYPOTHESES =>
             hypotheses = [r \in 1..config.MAX_HYPOTHESES |-> AtRank(unpruned, r)]

\* a pruning that cut between two entries of equal confidence
C8_Witness ==
    /\ pc = "test_hypotheses"
    /\ LastNode = "detect_patterns"
    /\ Len(unpruned) > config.MAX_HYPOTHESES
    /\ \E i, j \in DOMAIN unpruned :
         /\ unpruned[i].confidence = unpruned[j].confidence
         /\ Rank(unpruned, i) <= config.MAX_HYPOTHESES
         /\ Rank(unpruned, j) > config.MAX_HYPOTHESES
         /\ unpruned[i] # unpruned[j]

\* the observations at most k qualifying edges away from the start
Qualifies(e) == e.strength >= targs.min_strength

RECURSIVE Within(_)
Within(k) ==
    IF k = 0 THEN {targs.start_observation_id}
    ELSE LET S == Within(k - 1)
         IN  S \cup {e.b : e \in {f \in edges : Qualifies(f) /\ f.a \in S}}
               \cup {e.a : e \in {f \in edges : Qualifies(f) /\ f.b \in S}}

\* the BFS level of v: the least number of qualifying edges from the start to v
Level(v) == CHOOSE k \in 0..MaxNodes : v \in Within(k) /\ \A j \in 0..(k - 1) : v \notin Within(j)

NoDuplicatesAndLevels(list) ==
    /\ \A i, j \in DOMAIN list : i # j => list[i].id # list[j].id
    /\ \A i \in DOMAIN list :
         /\ list[i].hop_distance <= targs.max_hops
         /\ list[i].id \in Within(MaxNodes)
         /\ list[i].hop_distance = Level(list[i].id)

\* C9: traverse_graph never returns an observation twice, every hop_distance is
\* <= max_hops and equals the observation's BFS level over the edges of strength
\* >= min_strength (the start is level 0), on cyclic graphs too.
C9_TraversalLevels ==
    /\ NoDuplicatesAndLevels(all_observations)
    /\ NoDuplicatesAndLevels(result)

\* a traversal of a triangle returned all three observations
C9_Witness ==
    /\ tpc = "returned"
    /\ Len(result) = 3
    /\ Cardinality({e \in edges : Qualifies(e)}) = 3
    /\ \E i \in DOMAIN result : result[i].hop_distance = 1

\* C10: the result set of traverse_graph is the set of stored observations at BFS
\* distance 0..max_hops from the start.
C10_ReturnsAllWithinMaxHops ==
    tpc = "returned" =>
        {result[i].id : i \in DOMAIN result} = Within(targs.max_hops) \cap store

\* the ids of all clusters, in one list
ClusteredIds == Concat(result)

Occurrences(list, x) == Cardinality({i \in DOMAIN list : list[i] = x})

\* C11 as stated: for every input id list and threshold, cluster_observations
\* returns a partition of the input ids: every input id is in exactly one cluster,
\* none twice, and no other id appears.
C11_PartitionOfInputIds ==
    tpc \in {"returned", "raised"} =>
        /\ \A id \in targs.observation_ids : Occurrences(ClusteredIds, id) = 1
        /\ \A i \in DOMAIN ClusteredIds : ClusteredIds[i] \in targs.observation_ids

\* C11 amended: when no store lookup fails, cluster_observations returns a partition
\* of the input ids that have a stored observation: each of them is in exactly one
\* cluster, none twice, and no other id appears (input ids without a stored
\* observation are left out).
C11_PartitionOfStoredInputIds ==
    tpc = "returned" =>
        /\ \A id \in targs.observation_ids \cap store : Occurrences(ClusteredIds, id) = 1
        /\ \A i \in DOMAIN ClusteredIds :
             ClusteredIds[i] \in targs.observation_ids \cap store
        /\ \A c \in DOMAIN result : result[c] # <<>>

\* three stored observations in two clusters, the lone one similar enough to a
\* member of the other cluster (not to its seed)
C11_Witness ==
    /\ tpc = "returned"
    /\ targs.observation_ids = store
    /\ Cardinality(store) = 3
    /\ Len(result) = 2
    /\ Len(result[1]) = 2
    /\ CosineSimilarity(table[result[1][2]].embedding, table[result[2][1]].embedding)
         >= targs.similarity_threshold

\* the k the caller asked for (the configured default when k is None)
RequestedK == IF targs.k = <<>> THEN config.SEMANTIC_SEARCH_K ELSE targs.k[1]

\* the similarity of a stored observation to the query
Similarity(id) == SimilarityOf(CosineDistance(table[id].embedding, targs.query_embedding))

\* the observations that pass the filters and reach min_similarity
Eligible == {id \in Filtered(store, table, targs.filters) :
               Similarity(id) >= targs.min_similarity}

SortedBySimilarity(list) ==
    \A i, j \in DOMAIN list : i < j => list[i].similarity >= list[j].similarity

\* C12: for every store, query, k and min_similarity the list semantic_search
\* returns is sorted by non-increasing similarity, has at most k entries, and every
\* entry has similarity >= min_similarity.
C12_SortedBoundedAboveThreshold ==
    tpc \in {"returned", "raised"} =>
        /\ SortedBySimilarity(result)
        /\ Len(result) <= RequestedK
        /\ \A i \in DOMAIN result : result[i].similarity >= targs.min_similarity

\* C13: semantic_search called with k = 0 returns an empty list, whatever the store
\* contains.
C13_ZeroKReturnsNothing ==
    (tpc \in {"returned", "raised"} /\ targs.k = <<0>>) => result = <<>>

\* C14: when no lookup fails, semantic_search returns exactly the first k
\* observations, in descending similarity order, among those that pass the filters
\* and have similarity >= min_similarity (filter, then truncate).
C14_FilterThenTruncate ==
    tpc = "returned" =>
        /\ Len(result) = Min(RequestedK, Cardinality(Eligible))
        /\ SortedBySimilarity(result)
        /\ \A i, j \in DOMAIN result : i # j => result[i].id # result[j].id
        /\ \A i \in DOMAIN result :
             /\ result[i].id \in Eligible
             /\ result[i].similarity = Similarity(result[i].id)
             /\ \A id \in Eligible \ {result[j].id : j \in DOMAIN result} :
                  Similarity(id) <= result[i].similarity

\* C15: find_cooccurrences called with an observation id returns at most limit
\* records, each describing the other endpoint of an edge touching that id (never
\* the queried observation itself) with that edge's distance, type and strength,
\* and with distance <= max_distance whenever max_distance is given (0 included).
C15_NeighboursWithinDistance ==
    (tpc \in {"returned", "raised"} /\ Truthy(targs.observation_id)) =>
        /\ Len(result) <= targs.limit
        /\ \A i \in DOMAIN result :
             /\ result[i].id # targs.observation_id[1]
             /\ \E e \in edges :
                  /\ e.a = targs.observation_id[1] \/ e.b = targs.observation_id[1]
                  /\ result[i].id = OtherEnd(e, targs.observation_id[1])
                  /\ result[i].distance = e.distance
                  /\ result[i].co_occurrence_type = e.co_occurrence_type
                  /\ result[i].strength = e.strength
             /\ targs.max_distance # <<>> => result[i].distance <= targs.max_distance[1]

\* C16: a retrieval operation in which a store lookup failed at any point returns
\* an empty result.
C16_FailedLookupGivesEmptyResult ==
    (tpc \in {"returned", "raised"} /\ failures > 0) => result = <<>>

\* C17: a failed or malformed Oracle response (entries lacking expected fields
\* included) is treated as an empty judgment: the step completes and the session is
\* never aborted by it.
C17_MalformedResponseNeverAborts == pc # "failed"

Returned == result # <<>>

\* C18: query() never raises to its caller; if a step of the loop raised, query()
\* returns a result with confidence 0.0 and the error recorded.
C18_QueryNeverRaises ==
    Returned =>
        /\ ~result.raises
        /\ pc = "failed" => (result.confidence = 0 /\ result.error)
        /\ pc = "end" => (result.confidence = confidence_score /\ ~result.error)

\* a step raised in a later round, after meta_reasoning had stored a confidence
\* above 0, and query() returned
C18_Witness ==
    /\ Returned
    /\ pc = "failed"
    /\ confidence_score > 0
    /\ iterations >= 1
    /\ result.confidence = 0

\* every Oracle call of the session so far came back empty (no sub-question, no
\* tool call, no pattern, confidence 0.0 with decision CONTINUE, no synthesis) and
\* none came back malformed
EveryCallFailed ==
    /\ pc # "failed"
    /\ \A i \in DOMAIN evidence_trail :
         LET line == evidence_trail[i]
         IN  /\ line.kind \in {"decomposed", "meta"}
             /\ line.kind = "decomposed" => line.arg = <<0>>
             /\ line.kind = "meta" => line.arg = <<0, "CONTINUE">>

\* C19: a session in which every Oracle call and every retrieval call fails ends
\* normally, and query() returns a non-null answer text with confidence 0.
C19_BestEffortAnswer ==
    (Returned /\ EveryCallFailed) =>
        /\ pc = "end"
        /\ ~result.raises
        /\ result.confidence = 0
        /\ result.answer # "None"

RECURSIVE ObservationsLogged(_)
ObservationsLogged(trail) ==
    IF trail = <<>> THEN 0
    ELSE (IF Head(trail).kind = "tool" THEN Head(trail).arg[2] ELSE 0)
         + ObservationsLogged(Tail(trail))

\* C20: in gather a planned tool call whose name is not in the dispatch table
\* (cluster_observations included) yields an empty result: it is logged with 0
\* observations, no observation comes from it, no error is raised, and the tool
\* calls that follow it in the plan are executed in the given order.
C20_UnknownToolYieldsNothing ==
    /\ \A i \in DOMAIN observations : observations[i].tool \in DispatchTable
    /\ obs_total = ObservationsLogged(evidence_trail)
    /\ \A i \in DOMAIN evidence_trail :
         LET line == evidence_trail[i]
         IN  (line.kind = "tool" /\ line.arg[1] \notin DispatchTable) =>
                /\ line.arg[2] = 0
                /\ \E r \in oracle.plans : \E j \in DOMAIN r.tool_calls :
                     /\ r.tool_calls[j].tool = line.arg[1]
                     /\ \A m \in (j + 1)..Len(r.tool_calls) :
                          /\ i + (m - j) <= Len(evidence_trail)
                          /\ evidence_trail[i + (m - j)].kind = "tool"
                          /\ evidence_trail[i + (m - j)].arg =
                               <<r.tool_calls[m].tool, r.tool_calls[m].returns>>

\* a gather step ran cluster_observations (nothing came of it) and then
\* traverse_graph, whose observation is the newest in working memory
C20_Witness ==
    /\ pc = "detect_patterns"
    /\ LastNode = "gather"
    /\ Len(evidence_trail) >= 2
    /\ evidence_trail[Len(evidence_trail) - 1].kind = "tool"
    /\ evidence_trail[Len(evidence_trail) - 1].arg = <<"cluster_observations", 0>>
    /\ evidence_trail[Len(evidence_trail)].kind = "tool"
    /\ evidence_trail[Len(evidence_trail)].arg = <<"traverse_graph", 1>>
    /\ unpruned # <<>>
    /\ unpruned[Len(unpruned)] = [seq |-> obs_total, tool |-> "traverse_graph"]
    /\ obs_total >= 2

\* C21: ingestion of a batch is all-or-nothing: after the rollback of a batch in
\* which an error occurred, no observation and no co-occurrence edge written for
\* that batch remains in the store.
C21_BatchAllOrNothing ==
    \A r \in DOMAIN runs :
        (runs[r].ipc = "done" /\ runs[r].raised) =>
            /\ \A id \in store : table[id].run # r
            /\ \A e \in edges : e.run # r

\* C22: in every store state reachable during ingestion, after a partial batch
\* failure and with interleaved runs included, every committed co-occurrence edge
\* references two committed observations; the edges of a flush are written only
\* after the flush's observations have been committed.
C22_NoOrphanedEdge ==
    /\ \A e \in edges : e.a \in store /\ e.b \in store
    /\ \A r \in DOMAIN runs : \A e \in runs[r].tx_edges : e.a \in store /\ e.b \in store

\* both runs committed edges; the first run then committed the observations of a
\* second flush, after those of the other run, and failed before their edges
C22_Witness ==
    /\ \E e, f \in edges :
         /\ e.run = 1
         /\ f.run = 2
         /\ e.b < f.a
         /\ \E id \in store : table[id].run = 1 /\ id > f.b
    /\ runs[1].raised
    /\ runs[1].ipc = "done"
    /\ runs[2].ipc = "done"

\* C23: any two query() calls made without a session_id, sequential or concurrent,
\* run under distinct session identifiers, and the working memory of a session
\* holds nothing of another session.
C23_SessionsShareNothing ==
    \A c, d \in DOMAIN sessions :
        /\ (c # d /\ sessions[c].qpc # "called" /\ sessions[d].qpc # "called") =>
              sessions[c].session_id # sessions[d].session_id
        /\ \A i \in DOMAIN sessions[c].observations : sessions[c].observations[i] = c

\* C24: every chunk _chunk_document produces has a text of at least
\* MIN_OBSERVATION_LENGTH characters, a document shorter than that yields no
\* chunk, and the indices of the chunks are 0, 1, 2, ... in order.
C24_ChunksLongEnoughAndNumbered ==
    chunking # <<>> =>
        /\ \A n \in DOMAIN chunking.chunks :
              /\ JoinedLength(chunking.chunks[n].text) >= chunking.MIN_OBSERVATION_LENGTH
              /\ chunking.chunks[n].index = n - 1
        /\ JoinedLength(chunking.words) + chunking.extra_whitespace
              < chunking.MIN_OBSERVATION_LENGTH => chunking.chunks = <<>>

\* a call returned two chunks after passing over a shorter one
C24_Witness ==
    /\ chunking # <<>>
    /\ chunking.cpc = "done"
    /\ Len(chunking.chunks) >= 2
    /\ chunking.passes > Len(chunking.chunks)

\* C25: in each gather step every tool call of the plan appends exactly one trail
\* line naming the tool, whether it succeeds, names an unknown tool or raises;
\* the lines stand in the order of the plan.
C25_OneTrailLinePerToolCall ==
    [][(pc = "gather" /\ pc' = "detect_patterns") =>
         \E r \in oracle.plans :
            /\ ~r.malformed
            /\ Len(evidence_trail') >= Len(evidence_trail) + Len(r.tool_calls)
            /\ \A j \in DOMAIN r.tool_calls :
                 LET line == evidence_trail'[Len(evidence_trail) + j]
                 IN  /\ line.kind = "tool"
                     /\ line.arg[1] = r.tool_calls[j].tool
            /\ obs_total' - obs_total =
                 ObservationsLogged(SubSeq(evidence_trail', Len(evidence_trail) + 1,
                                           Len(evidence_trail) + Len(r.tool_calls)))]_vars

\* the evaluations applied as stated: an index outside 0..len-1 is passed over,
\* one inside sets the confidence, counts one more test and stamps the iteration
RECURSIVE ApplyInRange(_, _, _)
ApplyInRange(evaluations, hs, iteration) ==
    IF evaluations = <<>> THEN hs
    ELSE LET e == Head(evaluations)
             at == e.hypothesis_id + 1
         IN  ApplyInRange(Tail(evaluations),
                          IF at \in DOMAIN hs
                          THEN [hs EXCEPT ![at] =
                                  [@ EXCEPT !.confidence = e.new_confidence,
                                            !.num_tests = @ + 1,
                                            !.tested_at_iteration = iteration]]
                          ELSE hs,
                          iteration)

InRange(evaluations, n) ==
    SelectSeq(evaluations, LAMBDA e : e.hypothesis_id >= 0 /\ e.hypothesis_id < n)

\* C26: in test_hypotheses an evaluation whose index is out of range (at or above
\* the number of hypotheses, or negative) is ignored: no hypothesis is modified,
\* no trail line is written, no error is raised; an evaluation whose index is in
\* range sets the confidence, adds one to the test count and stamps the iteration.
C26_OutOfRangeEvaluationIgnored ==
    [][(pc = "test_hypotheses" /\ hypotheses # <<>>) =>
         /\ pc' = "meta_reason"
         /\ \E r \in oracle.evaluation_lists :
              /\ hypotheses' = ApplyInRange(r.evaluations, hypotheses, iterations)
              /\ trail_total' - trail_total = Len(InRange(r.evaluations, Len(hypotheses)))]_vars

\* C30: every hypothesis in working memory has a confidence within [0, 1]
\* (0..10 tenths), whatever the Oracle returns.
C30_HypothesisConfidenceInUnitInterval ==
    \A i \in DOMAIN hypotheses :
        hypotheses[i].confidence >= 0 /\ hypotheses[i].confidence <= 10

\* C27: the sub-questions are what decompose_query made of the Oracle's answer,
\* each with status 'pending' and confidence 0.0 and its position as id, and no
\* step after decompose changes the list.
C27_SubQuestionsFixedAfterDecompose ==
    /\ [](\A i \in DOMAIN sub_questions :
             /\ sub_questions[i].id = i - 1
             /\ sub_questions[i].status = "pending"
             /\ sub_questions[i].confidence = 0)
    /\ [][pc # "decompose" => sub_questions' = sub_questions]_vars

\* a session with two sub-questions went through the loop and synthesized
C27_Witness ==
    /\ Len(sub_questions) = 2
    /\ pc = "end"
    /\ LastNode = "synthesize"
    /\ iterations >= 2

\* C28: after synthesize_answer the answer is set (non-null), confidence_score is
\* the confidence of the Oracle's synthesis when the response supplies one and
\* otherwise the value meta_reasoning recorded, and no hypothesis in working
\* memory is removed or modified.
C28_SynthesisSetsAnswerAndConfidence ==
    [][pc = "synthesize" =>
         /\ answer' # "None"
         /\ \E r \in oracle.syntheses :
              confidence_score' = IF r.has_confidence THEN r.confidence
                                                      ELSE confidence_score
         /\ hypotheses' = hypotheses]_vars

\* some antonym pair of the keyword table has one word in the one context and
\* the other word in the other, in either direction
CrossPresent(a, b) ==
    \E pair \in {contradiction_keywords[n] : n \in DOMAIN contradiction_keywords} :
       \/ In(pair[1], Lower(a.context)) /\ In(pair[2], Lower(b.context))
       \/ In(pair[2], Lower(a.context)) /\ In(pair[1], Lower(b.context))

TuplesOf(obs1, obs2) == {n \in DOMAIN result : result[n][1] = obs1 /\ result[n][2] = obs2}

\* C29: find_contradictions examines every pair (earlier, later) of the up to 2k
\* results of its search exactly once: the result has the one tuple
\* (obs1, obs2, 1 - similarity(obs2)) for a pair iff an antonym pair is
\* cross-present in the two contexts, and no other tuple; with fewer than two
\* search results the result is empty.
C29_OneTuplePerOpposingPair ==
    tpc = "returned" =>
        /\ Len(all_observations) <= 2 * targs.k
        /\ (Len(all_observations) < 2 => result = <<>>)
        /\ \A i, j \in DOMAIN all_observations :
             i < j =>
               LET obs1 == all_observations[i]
                   obs2 == all_observations[j]
               IN  /\ Cardinality(TuplesOf(obs1, obs2)) =
                        (IF CrossPresent(obs1, obs2) THEN 1 ELSE 0)
                   /\ \A n \in TuplesOf(obs1, obs2) :
                        result[n][3] = 10 - obs2.similarity
        /\ \A n \in DOMAIN result :
             \E i, j \in DOMAIN all_observations :
                i < j /\ result[n][1] = all_observations[i]
                      /\ result[n][2] = all_observations[j]

\* C31: observations of equal similarity to the query come back from
\* semantic_search in ascending identifier order, and which of them fall inside
\* the first k is decided by ascending identifier.
C31_TiesByAscendingIdentifier ==
    tpc = "returned" =>
        /\ \A i, j \in DOMAIN result :
             (i < j /\ result[i].similarity = result[j].similarity) =>
                result[i].id < result[j].id
        /\ \A i \in DOMAIN result :
             \A id \in Eligible \ {result[j].id : j \in DOMAIN result} :
                Similarity(id) = result[i].similarity => id > result[i].id

\* C32: find_cooccurrences called with a surface form returns at most limit
\* results in total, and they are co-occurrence neighbours of at most 10
\* observations whose surface form contains the given string.
C32_SurfaceFormResultsWithinLimit ==
    (tpc = "returned" /\ ~Truthy(targs.observation_id) /\ Given(targs.surface_form)) =>
        /\ Len(result) <= targs.limit
        /\ \E matching \in SUBSET {id \in store : Like(table[id].surface_form,
                                                      targs.surface_form[1])} :
             /\ Cardinality(matching) <= OBS_WITH_FORM_LIMIT
             /\ \A i \in DOMAIN result :
                  \E e \in edges, id \in matching :
                     /\ id \in {e.a, e.b}
                     /\ result[i].id \in {e.a, e.b}

\* C33: in the final state of a session that ended without an exception the
\* answer is non-null if and only if synthesize_answer was executed; a session
\* that ended through the stop route has no answer.
C33_AnswerIffSynthesized ==
    pc = "end" => (answer # "None" <=> LastNode = "synthesize")

\* C34: every element gather appends to the observation list is an observation
\* record, for every tool of the dispatch table, find_contradictions included;
\* so detect_patterns never raises on the contents of working memory.
C34_WorkingMemoryHoldsRecords ==
    /\ \A i \in DOMAIN observations : ElementType(observations[i].tool) = "dict"
    /\ ~(pc = "failed" /\ LastNode = "detect_patterns")

\* C35: in every session state each hypothesis's id is its index in the
\* hypothesis list (ids are unique, and an evaluation's hypothesis_id updates the
\* hypothesis carrying that id), also after pruning has re-sorted and cut the list
\* and new hypotheses were added.
C35_HypothesisIdIsIndex ==
    \A i \in DOMAIN hypotheses : hypotheses[i].id = i - 1

\* C36: for every positive MAX_EVIDENCE_TRAIL_ITEMS, values of 10 and less
\* included, the evidence trail has at most MAX_EVIDENCE_TRAIL_ITEMS entries in
\* every state from the end of the first meta_reasoning step on, the final state
\* after synthesize included.
C36_TrailWithinCap ==
    MetaCount >= 1 => Len(evidence_trail) <= config.MAX_EVIDENCE_TRAIL_ITEMS

\* C37: when the state a node returns is merged through the add reducers of
\* observations and evidence_trail, no entry is duplicated: after every node the
\* session's observation list and evidence trail are the lists the node left in
\* the state it returned.
C37_MergeKeepsReturnedLists ==
    [][checkpoints' # checkpoints =>
         /\ checkpoints'[Thread].observations = observations
         /\ checkpoints'[Thread].evidence_trail = evidence_trail]_vars

\* C38: _chunk_document terminates for every document and every configuration
\* with chunk_size >= 1 and chunk_overlap >= 0, chunk_overlap >= chunk_size
\* included: every pass of the loop moves i towards len(words), the loop's only
\* exit, and the call returns in the end.
C38_ChunkDocumentTerminates ==
    /\ [][(chunking.cpc = "loop" /\ chunking'.cpc = "loop") =>
            chunking'.i > chunking.i]_vars
    /\ <>(chunking.cpc = "done")

=============================================================================
